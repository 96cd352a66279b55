------------------------------ MODULE Sprites ------------------------------
(***************************************************************************)
(* Sprite DMA of the custom chips (custom.cpp): the vertical comparison,   *)
(* which runs every pixel unless it is known to be idle, the two slots a   *)
(* sprite has in a line, and the guest, which may write the sprites'       *)
(* registers and DMACON at any time.                                       *)
(*                                                                         *)
(* A step is a pixel: its comparison, which near the end of a line is that *)
(* of the next one, and a fetch if it is a slot's.  A position word has    *)
(* the low part of a vstart, a control word a vend and the high bit of the *)
(* vstart, so between the two a sprite is at a line made of both.  What is *)
(* drawn is left out, and with it that the comparison wakes for it, and    *)
(* that a display that starts early takes slots of the last sprites.       *)
(***************************************************************************)
EXTENDS Integers, FiniteSets

CONSTANTS
  SpriteCount,  (* sprites, 8                                              *)
  FirstLine,    (* sprite_dma_start_vpos                                   *)
  FieldLines,   (* vpos_per_field                                          *)
  FirstSlot,    (* the pixel of the first slot, 2 * 0x15                   *)
  LinePixels,   (* hpos_per_line                                           *)
  CheckAhead,   (* pixels the comparison is ahead, 8                       *)
  LowLines,     (* lines a position word tells apart, 256                  *)
  Positions,    (* the lines sprites are put at                            *)
  MaxWrites     (* bound: of what the guest writes                         *)

ASSUME SpritesAssumption ==
  /\ SpriteCount \in Nat \ {0} /\ FirstLine \in Nat /\ FieldLines \in Nat \ {0} /\ Positions \subseteq Nat
  /\ LowLines \in Nat \ {0} /\ FirstSlot \in Nat /\ LinePixels \in Nat /\ CheckAhead \in Nat \ {0}
  /\ FirstSlot + 8 * SpriteCount - 4 < LinePixels - CheckAhead
  /\ MaxWrites \in Nat

VARIABLES
  vpos, pixel,          (* the beam                                        *)
  vstart, vend,         (* sprite_state_[]                                 *)
  armed,                (* spr_armed_mask                                  *)
  dma_active,           (* spr_dma_active_mask                             *)
  check,                (* spr_active_check_mask                           *)
  enabled,              (* DMACON: sprites                                 *)
  drawn,                (* where the control words were fetched, the lines *)
                        (* of data since, and whether the position word    *)
                        (* was the one of an image that ended as it began  *)
  undisturbed,          (* the guest has only been there between fields    *)
  writes

sprite_vars == <<vpos, pixel, vstart, vend, armed, dma_active, check, enabled, drawn, undisturbed, writes>>

Sprites == 0 .. SpriteCount - 1
VposCheck == vpos + (IF pixel + CheckAhead >= LinePixels THEN 1 ELSE 0)   (* spr_vpos_check *)

(* Mutant: the end is found a line late *)
EndsLate(s, v) == v = vend[s] + 1

EndsAt(s, v) == v = vend[s]

Compared(active, v) ==
  {s \in Sprites : IF s \in active THEN ~EndsAt(s, v) ELSE vstart[s] = v}

Waits(active, v) == \E s \in Sprites \ active : vstart[s] > v /\ vstart[s] < FieldLines

(* do_sprites: nothing to do, only ends to find, or all *)
NoSprites == armed = {} /\ dma_active = {} /\ ~check
TooEarly(active) == VposCheck <= FirstLine /\ active = {}

Checked == IF NoSprites \/ TooEarly(dma_active) THEN check ELSE Waits(dma_active, VposCheck)
Running == IF NoSprites \/ TooEarly(dma_active) THEN dma_active ELSE Compared(dma_active, VposCheck)

(* After the comparison a slot, and which words it fetches *)
FirstFetch(s) == pixel = FirstSlot + 8 * s
SecondFetch(s) == pixel = FirstSlot + 8 * s + 4
FetchControl(s) == vpos = FirstLine \/ vpos = vend[s]
Fetches(s) ==
  /\ FirstFetch(s) \/ SecondFetch(s)
  /\ vpos >= FirstLine /\ enabled /\ (FetchControl(s) \/ s \in Running)

(* Writes to SPRxPOS, SPRxCTL and SPRxDATA: the first two have a part of   *)
(* the vstart each                                                         *)
recalc(low, high) == low + LowLines * high
WriteSprPos(s, line) ==
  /\ vstart' = [vstart EXCEPT ![s] = recalc(line % LowLines, vstart[s] \div LowLines)]
  /\ UNCHANGED <<vend, armed>>
WriteSprCtl(s, high, end) ==
  /\ vstart' = [vstart EXCEPT ![s] = recalc(vstart[s] % LowLines, high)]
  /\ vend' = [vend EXCEPT ![s] = end] /\ armed' = armed \ {s}
WriteSprData(s) == armed' = armed \cup {s} /\ UNCHANGED <<vstart, vend>>

(* Both positions of the sprite are this line, for which its image ended:  *)
(* the image had no lines, and the next one has the same position word     *)
EndedAsBegun(s) == vpos > FirstLine /\ vstart[s] = vpos /\ vstart'[s] = vpos

ControlWord(s) ==
  IF FirstFetch(s)
  THEN /\ \E line \in Positions : WriteSprPos(s, line)
       /\ drawn' = [drawn EXCEPT ![s] = [at |-> vpos, lines |-> 0, again |-> EndedAsBegun(s)]]
  ELSE /\ \E high \in 0 .. 1, end \in Positions : WriteSprCtl(s, high, end)
       /\ UNCHANGED drawn

DataWord(s) ==
  IF FirstFetch(s) THEN WriteSprData(s) /\ UNCHANGED drawn
  ELSE drawn' = [drawn EXCEPT ![s].lines = @ + 1] /\ UNCHANGED <<vstart, vend, armed>>

SpriteFetch ==
  \/ /\ \A s \in Sprites : ~Fetches(s)
     /\ check' = Checked /\ UNCHANGED <<vstart, vend, armed, drawn>>
  \/ \E s \in Sprites :
       /\ Fetches(s) /\ check' = TRUE
       /\ IF FetchControl(s) THEN ControlWord(s) ELSE DataWord(s)

(* A pixel of a line; the end of a field clears the masks *)
LastPixel == pixel = LinePixels - 1
SpriteStep ==
  IF LastPixel /\ vpos + 1 = FieldLines
  THEN /\ pixel' = 0 /\ vpos' = 0 /\ dma_active' = {} /\ check' = FALSE /\ undisturbed' = enabled
       /\ drawn' = [s \in Sprites |-> [at |-> 0, lines |-> 0, again |-> FALSE]]
       /\ UNCHANGED <<vstart, vend, armed, enabled, writes>>
  ELSE /\ SpriteFetch
       /\ pixel' = IF LastPixel THEN 0 ELSE pixel + 1
       /\ vpos' = IF LastPixel THEN vpos + 1 ELSE vpos
       /\ dma_active' = Running
       /\ UNCHANGED <<enabled, undisturbed, writes>>

Disturb == writes < MaxWrites /\ writes' = writes + 1 /\ undisturbed' = FALSE

GuestWrite(s) ==
  /\ \/ \E line \in Positions : WriteSprPos(s, line)
     \/ \E high \in 0 .. 1, end \in Positions : WriteSprCtl(s, high, end)
     \/ WriteSprData(s)
  /\ Disturb
  /\ UNCHANGED <<vpos, pixel, dma_active, check, enabled, drawn>>

SwitchSprites(v) ==
  /\ enabled' = v /\ Disturb
  /\ UNCHANGED <<vpos, pixel, vstart, vend, armed, dma_active, check, drawn>>

SpritesInit ==
  /\ vpos = 0 /\ pixel = 0
  /\ vstart = [s \in Sprites |-> 0] /\ vend = [s \in Sprites |-> 0]
  /\ armed = {} /\ dma_active = {} /\ check = FALSE /\ enabled = FALSE
  /\ drawn = [s \in Sprites |-> [at |-> 0, lines |-> 0, again |-> FALSE]] /\ undisturbed = FALSE /\ writes = 0

SpritesNext ==
  \/ SpriteStep
  \/ \E s \in Sprites : GuestWrite(s)
  \/ \E v \in BOOLEAN : SwitchSprites(v)

SpritesSpec == SpritesInit /\ [][SpritesNext]_sprite_vars

-----------------------------------------------------------------------------
(***************************************************************************)
(* In a field in which the guest leaves the sprites to their DMA, the      *)
(* control words after a sprite are fetched when it has had a line of data *)
(* for each line from its vstart to its vend, although the comparison may  *)
(* see a vstart made of the new position and the old control word: it then *)
(* switches the DMA on and off again twice before the second word.  Two    *)
(* sprites are not served so: one that starts on the very line its control *)
(* words are fetched, and one whose position word is that of an image that *)
(* ended on the line it began (with nothing to draw), for which the        *)
(* comparison has switched the DMA on when the second word comes.          *)
(***************************************************************************)
WholeSprites ==
  \A s \in Sprites :
    Fetches(s) /\ FetchControl(s) /\ FirstFetch(s) /\ vpos > FirstLine /\ undisturbed
    /\ vstart[s] # drawn[s].at /\ ~drawn[s].again =>
      drawn[s].lines = IF vstart[s] \in drawn[s].at .. vend[s] THEN vend[s] - vstart[s] ELSE 0

=============================================================================
