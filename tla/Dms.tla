-------------------------------- MODULE Dms --------------------------------
(***************************************************************************)
(* Compressed disk images (dms.cpp): the tracks of an archive, their run   *)
(* lengths and the window of what was unpacked before, which goes on from  *)
(* track to track unless it is reset.  Codes of bits are in Huffman; here  *)
(* a track is made of literals and matches.                                *)
(*                                                                         *)
(* The archives are those of a packer that keeps all of its past and knows *)
(* how large the window is.  Checksums are left out, and so are tracks of  *)
(* a size that is not asked for.                                           *)
(***************************************************************************)
EXTENDS Integers, Sequences, SequencesExt

CONSTANTS
  Contents,   (* what a track may hold                                     *)
  Marker, Long, (* 0x90 and 0xff                                           *)
  Window,     (* its size for "medium", "heavy1" and "heavy2"              *)
  Start, Gap, (* of medium: 0x3fbe and 66                                  *)
  hightrack,
  MinMatch, MaxMatch, MaxTracks (* bounds                                  *)

Banner == 65535
Blank == <<>>

VARIABLES
  mode,       (* of the archive's crunched tracks                          *)
  hdr,        (* the track that is unpacked: [track, pack_mode, rle, keep, *)
              (* content, packed], where packed is what the packer crunches *)
  tracks,     (* tracks begun                                              *)
  text, text_loc, output, (* the window, and what came of the track so far *)
  past,       (* the packer's window: everything since the last reset      *)
  res, failed, (* "no", or what an exception is thrown for              *)
  wanted      (* what was packed for each track                            *)

decruncher == <<text, text_loc, output>>
dms_vars == <<mode, hdr, tracks, decruncher, past, res, failed, wanted>>

Mask(loc) == loc % Window[mode]

-----------------------------------------------------------------------------
(* rle_decode, a byte at a time *)
Byte(s, b) ==
  CASE s.at = "plain" -> IF b = Marker THEN [s EXCEPT !.at = "count"] ELSE [s EXCEPT !.out = Append(@, b)]
    [] s.at = "count" -> IF b = 0 THEN [s EXCEPT !.at = "plain", !.out = Append(@, Marker)]
                         ELSE [s EXCEPT !.at = "value", !.n = b]
    [] s.at = "value" /\ s.n = Long -> [s EXCEPT !.at = "high", !.v = b]
    [] s.at = "value" -> [s EXCEPT !.at = "plain", !.out = @ \o [i \in 1 .. s.n |-> b]]
    [] s.at = "high" -> [s EXCEPT !.at = "low", !.n = b]
    [] OTHER -> [s EXCEPT !.at = "plain", !.out = @ \o [i \in 1 .. (s.n * (Long + 1)) + b |-> s.v]]

(* A sequence that ends in the middle of a run is refused *)
rle_decode(input) ==
  LET end == FoldLeft(Byte, [at |-> "plain", n |-> 0, v |-> 0, out |-> <<>>], input)
  IN  [ok |-> end.at = "plain", out |-> end.out]

(* medium, heavy: a byte of the track goes into the window, too *)
Push(s, b) == [text |-> [s.text EXCEPT ![Mask(s.loc)] = b], loc |-> s.loc + 1, out |-> Append(s.out, b)]

Window0 == [text |-> text, loc |-> text_loc, out |-> output]

Becomes(s) == text' = s.text /\ text_loc' = s.loc /\ output' = s.out

Copied(len, dist) ==
  FoldLeft(LAMBDA s, i : Push(s, s.text[Mask(s.loc - dist - 1)]), Window0, [i \in 1 .. len |-> i])

-----------------------------------------------------------------------------
(* The packer: runs as bytes, or as a marker, a count and a value *)
Single(b) == IF b = Marker THEN <<Marker, 0>> ELSE <<b>>

Run(n, b) ==
  IF n >= Long THEN <<Marker, Long, b, n \div (Long + 1), n % (Long + 1)>> ELSE <<Marker, n, b>>

Singly(content) == FlattenSeq([i \in DOMAIN content |-> Single(content[i])])

(* ... the last bytes that are the same as one run *)
Packings(content) ==
  {Singly(content)} \cup
  {Singly(SubSeq(content, 1, i)) \o Run(Len(content) - i, Last(content)) :
     i \in {j \in 0 .. Len(content) - 1 : \A k \in j + 1 .. Len(content) : content[k] = Last(content)}}

Next1 == hdr.packed[Len(output) + 1]
Rest == SubSeq(hdr.packed, Len(output) + 1, Len(hdr.packed))

(* Before its past the window is clear *)
Ago(p, dist) == IF dist < Len(p) THEN p[Len(p) - dist] ELSE 0

Matches(len, dist) ==
  /\ len <= Len(Rest)
  /\ \A j \in 1 .. len : Ago(past \o SubSeq(Rest, 1, j - 1), dist) = Rest[j]

-----------------------------------------------------------------------------
(* The header of a track; 0xffff is a banner *)
read_track_header ==
  /\ hdr = Blank /\ failed = "no" /\ tracks < MaxTracks /\ tracks' = tracks + 1
  /\ \E track \in {0, 1, hightrack + 1, Banner}, keep \in BOOLEAN, content \in Contents :
       \E how \in {[pack_mode |-> "store", rle |-> FALSE], [pack_mode |-> "simple", rle |-> TRUE],
                   [pack_mode |-> mode, rle |-> TRUE], [pack_mode |-> mode, rle |-> mode = "medium"]} :
         \E packed \in IF how.rle THEN Packings(content) ELSE {content} :
           hdr' = [track |-> track, keep |-> keep, content |-> content, packed |-> packed,
                   pack_mode |-> how.pack_mode, rle |-> how.rle]
  /\ output' = <<>>
  /\ UNCHANGED <<mode, text, text_loc, past, res, failed, wanted>>

Unpacking == hdr # Blank /\ Len(output) < Len(hdr.packed)

Stored ==
  /\ Unpacking /\ hdr.pack_mode \in {"store", "simple"}
  /\ output' = hdr.packed
  /\ UNCHANGED <<mode, hdr, tracks, text, text_loc, past, res, failed, wanted>>

Literal ==
  /\ Unpacking /\ hdr.pack_mode = mode
  /\ Becomes(Push(Window0, Next1)) /\ past' = Append(past, Next1)
  /\ UNCHANGED <<mode, hdr, tracks, res, failed, wanted>>

Match ==
  /\ Unpacking /\ hdr.pack_mode = mode
  /\ \E len \in MinMatch .. MaxMatch, dist \in 0 .. Window[mode] - 1 :
       /\ Matches(len, dist)
       /\ Becomes(Copied(len, dist)) /\ past' = past \o SubSeq(Rest, 1, len)
  /\ UNCHANGED <<mode, hdr, tracks, res, failed, wanted>>

-----------------------------------------------------------------------------
ClearText == [i \in 0 .. Window[mode] - 1 |-> 0]
StartOf(m) == IF m = "medium" THEN Start ELSE 0

(* Mutant: a reset does not clear the window *)
ResetTextKept == text

ResetText == ClearText

(* medium leaves a gap after each track *)
Gaps == IF hdr.pack_mode = "medium" THEN Gap ELSE 0

(* dms_unpack: the end of a track *)
Unpacked == IF hdr.rle THEN rle_decode(output) ELSE [ok |-> TRUE, out |-> output]

EndTrack ==
  /\ hdr # Blank /\ Len(output) >= Len(hdr.packed) /\ hdr' = Blank
  /\ failed' = CASE ~Unpacked.ok \/ Len(Unpacked.out) # Len(hdr.content) -> "data"
                  [] hdr.track \notin 0 .. hightrack \cup {Banner} -> "track"
                  [] OTHER -> "no"
  /\ IF failed' # "no" \/ hdr.track = Banner THEN UNCHANGED <<res, wanted>>
     ELSE res' = [res EXCEPT ![hdr.track] = Unpacked.out] /\ wanted' = [wanted EXCEPT ![hdr.track] = hdr.content]
  /\ IF hdr.keep
     THEN /\ text_loc' = text_loc + Gaps /\ UNCHANGED text
          /\ past' = FoldLeft(LAMBDA p, i : Append(p, Ago(p, Window[mode] - 1)), past, [i \in 1 .. Gaps |-> i])
     ELSE text' = ResetText /\ text_loc' = StartOf(mode) /\ past' = <<>>
  /\ UNCHANGED <<mode, tracks, output>>

-----------------------------------------------------------------------------
DmsInit ==
  /\ mode \in {"medium", "heavy1", "heavy2"}
  /\ hdr = Blank /\ tracks = 0 /\ text = ClearText /\ text_loc = StartOf(mode) /\ output = <<>> /\ past = <<>>
  /\ res = [t \in 0 .. hightrack |-> Blank] /\ failed = "no" /\ wanted = res

DmsNext == read_track_header \/ Stored \/ Literal \/ Match \/ EndTrack

-----------------------------------------------------------------------------
(***************************************************************************)
(* Whatever the packer finds in its past, also across tracks, the window's *)
(* end and runs, each track of the image is the one that was packed last.  *)
(***************************************************************************)
ImageUnpacked == res = wanted /\ failed # "data"
=============================================================================
