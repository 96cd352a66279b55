------------------------------- MODULE Paula -------------------------------
(***************************************************************************)
(* One audio channel of the custom chips (custom.cpp): its state machine,  *)
(* run every colour clock, the DMA slot it has once a line, and the guest, *)
(* which may write its registers and DMACON between any two of these.      *)
(* Samples stand for the addresses they were read from; volume and filter  *)
(* are left out, and a line's length is anything.                          *)
(***************************************************************************)
EXTENDS Integers, Sequences

CONSTANTS
  Locations,    (* the starts of the samples the guest plays               *)
  SampleLengths, LenMod,    (* what it writes to AUDxLEN; where it wraps   *)
  Periods, MinPeriod, PerMod  (* AUDxPER, the 113 it is raised to, its wrap *)

ASSUME PaulaAssumption ==
  /\ LenMod \in Nat /\ LenMod > 1 /\ SampleLengths \subseteq 0 .. LenMod - 1
  /\ Locations \subseteq Nat

VARIABLES
  on,                     (* DMACON: the channel's bit and the master's    *)
  lc, len, per, dat,      (* the guest's registers                         *)
  state, ptr, actlen, actdat, percnt, dmareq,
  aud_irq,                (* the channel's interrupt, of the last step     *)
  block,                  (* the words fetched since the last (re)start    *)
  asked,                  (* the registers it took then                    *)
  unplayed                (* the word fetched last has not been heard      *)

channel == <<state, ptr, actlen, actdat, percnt, dmareq, block, asked, unplayed>>
paula_vars == <<on, lc, len, per, dat, aud_irq, channel>>

load_per == IF per > 0 /\ per < MinPeriod THEN MinPeriod ELSE per

(* Counting down; 0 counts from the top *)
Down(n, mod) == (n - 1) % mod

-----------------------------------------------------------------------------
Stop ==
  /\ ~on /\ state # "inactive"
  /\ state' = "inactive" /\ dmareq' = FALSE /\ unplayed' = FALSE
  /\ UNCHANGED <<ptr, actlen, actdat, percnt, block, asked>>

Begin ==
  /\ on /\ state = "inactive"
  /\ state' = "dma_starting" /\ ptr' = lc /\ actlen' = len /\ percnt' = load_per /\ dmareq' = TRUE
  /\ block' = <<>> /\ asked' = [lc |-> lc, len |-> len, first |-> TRUE]
  /\ UNCHANGED <<actdat, unplayed>>

(* Mutant: a word is asked for after either sample *)
RequestsAfterBoth(s) == TRUE

RequestsAfter(s) == s = "dma_samp1"

Play ==
  /\ on /\ state \in {"dma_samp1", "dma_samp2"}
  /\ IF state = "dma_samp1" THEN actdat' = dat /\ unplayed' = FALSE ELSE UNCHANGED <<actdat, unplayed>>
  /\ IF percnt = 1
     THEN /\ state' = IF state = "dma_samp1" THEN "dma_samp2" ELSE "dma_samp1"
          /\ percnt' = load_per /\ dmareq' = (dmareq \/ RequestsAfter(state))
     ELSE percnt' = Down(percnt, PerMod) /\ UNCHANGED <<state, dmareq>>
  /\ UNCHANGED <<ptr, actlen, block, asked>>

do_audio ==
  /\ Stop \/ Begin \/ Play
  /\ aud_irq' = FALSE /\ UNCHANGED <<on, lc, len, per, dat>>

(* Mutant: the last word's fetch does not count *)
LastLate(n) == n = 0

Last(n) == n = 1

audio_dma ==
  /\ on /\ dmareq
  /\ dat' = ptr /\ dmareq' = FALSE /\ unplayed' = TRUE
  /\ IF state = "dma_starting"
     THEN /\ actlen' = IF actlen # 1 THEN Down(actlen, LenMod) ELSE actlen
          /\ state' = "dma_samp1" /\ aud_irq' = TRUE
          /\ ptr' = ptr + 1 /\ block' = Append(block, ptr) /\ UNCHANGED asked
     ELSE /\ state \in {"dma_samp1", "dma_samp2"} /\ UNCHANGED state
          /\ aud_irq' = Last(actlen)
          /\ IF Last(actlen)
             THEN /\ ptr' = lc /\ actlen' = len
                  /\ block' = <<>> /\ asked' = [lc |-> lc, len |-> len, first |-> FALSE]
             ELSE /\ ptr' = ptr + 1 /\ actlen' = Down(actlen, LenMod)
                  /\ block' = Append(block, ptr) /\ UNCHANGED asked
  /\ UNCHANGED <<on, lc, len, per, actdat, percnt>>

-----------------------------------------------------------------------------
WriteLocation(l) == lc' = l /\ aud_irq' = FALSE /\ UNCHANGED <<on, len, per, dat, channel>>
WriteLength(l) == len' = l /\ aud_irq' = FALSE /\ UNCHANGED <<on, lc, per, dat, channel>>
WritePeriod(p) == per' = p /\ aud_irq' = FALSE /\ UNCHANGED <<on, lc, len, dat, channel>>
WriteDmacon(v) == on' = v /\ aud_irq' = FALSE /\ UNCHANGED <<lc, len, per, dat, channel>>

(* AUDxDAT, whose sample is not played; the guest's word replaces the DMA's *)
WriteData(v) ==
  /\ dat' = v /\ aud_irq' = ~on /\ unplayed' = FALSE
  /\ UNCHANGED <<on, lc, len, per, state, ptr, actlen, actdat, percnt, dmareq, block, asked>>

PaulaInit ==
  /\ on = FALSE /\ lc = 0 /\ len = 0 /\ per = 0 /\ dat = 0
  /\ state = "inactive" /\ ptr = 0 /\ actlen = 0 /\ actdat = 0 /\ percnt = 0 /\ dmareq = FALSE
  /\ aud_irq = FALSE /\ block = <<>> /\ asked = [lc |-> 0, len |-> 0, first |-> FALSE] /\ unplayed = FALSE

PaulaNext ==
  \/ do_audio \/ audio_dma
  \/ \E l \in Locations : WriteLocation(l)
  \/ \E l \in SampleLengths : WriteLength(l)
  \/ \E p \in Periods : WritePeriod(p)
  \/ \E v \in BOOLEAN : WriteDmacon(v)
  \/ WriteData(0)

PaulaSpec == PaulaInit /\ [][PaulaNext]_paula_vars

-----------------------------------------------------------------------------
(***************************************************************************)
(* Between two interrupts the channel fetches the block whose registers it *)
(* took at the first of them -- AUDxLEN words, 0 meaning the most there    *)
(* are, from AUDxLC on -- however the guest writes them meanwhile; and the *)
(* interrupt tells that they were taken.  (A block of one word that is     *)
(* started with the channel is two words long.)                            *)
(***************************************************************************)
BlockWords(a) == IF a.len = 0 THEN LenMod ELSE IF a.first /\ a.len = 1 THEN 2 ELSE a.len
WordsTaken == Append(block, ptr)

WordOfBlock ==
  audio_dma =>
    /\ WordsTaken = [i \in 1 .. Len(WordsTaken) |-> asked.lc + i - 1]
    /\ Len(WordsTaken) <= BlockWords(asked)
    /\ block' = <<>> => aud_irq' /\ Len(WordsTaken) = BlockWords(asked)

(***************************************************************************)
(* A word fetched is heard before the next replaces it, however late the   *)
(* slots come and however short the period is.                             *)
(***************************************************************************)
HeardFirst == audio_dma => ~unplayed

(* Each word of a block is taken once, and heard before the next *)
BlocksHeard == [][WordOfBlock /\ HeardFirst]_paula_vars
=============================================================================
