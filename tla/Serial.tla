------------------------------- MODULE Serial -------------------------------
(***************************************************************************)
(* What the guest sends through Paula's serial port (custom.cpp), as the   *)
(* window or the console shows it (main.cpp, serial_data_handler): escape  *)
(* sequences are swallowed, and CR LF, LF CR, CR and LF end a line.  The   *)
(* text collected so far is handed over by a flush at any moment between   *)
(* two bytes.  A failed assertion ends the program.                        *)
(***************************************************************************)
EXTENDS Integers, Sequences

CONSTANTS
  EscapeSize,     (* sizeof(escape_sequence)                               *)
  MaxSent         (* bytes sent, to bound the histories                    *)

VARIABLES
  escape_sequence_pos, crlf, serdata,
  sent,           (* history: what the guest sent                          *)
  seen,           (* history: what was handed over                         *)
  aborted         (* an assertion failed                                   *)

serial_vars == <<escape_sequence_pos, crlf, serdata, sent, seen, aborted>>

(* Bytes: a letter, a digit or bracket, and those the handler knows *)
Bytes == {"letter", "other", "NUL", "ESC", "CR", "LF"}
LineEnds == {"CR", "LF"}
NewLine == <<"CR", "LF">>

SerialInit == escape_sequence_pos = 0 /\ crlf = {} /\ serdata = <<>> /\ sent = <<>> /\ seen = <<>> /\ aborted = FALSE

-----------------------------------------------------------------------------
Escape(data) ==
  IF data = "ESC"
  THEN /\ aborted' = (escape_sequence_pos # 0)
       /\ escape_sequence_pos' = IF escape_sequence_pos = 0 THEN 1 ELSE escape_sequence_pos
  ELSE /\ aborted' = (escape_sequence_pos >= EscapeSize)
       /\ escape_sequence_pos' = IF data = "letter" \/ escape_sequence_pos >= EscapeSize THEN 0 ELSE escape_sequence_pos + 1

(* A line end waits for the other byte of a pair (crlf is the set of those  *)
(* waiting); the same byte again is forgotten                               *)
Pairs(data) == LineEnds \ {data} \subseteq crlf
LineEnd(data) ==
  IF Pairs(data) THEN serdata' = serdata \o NewLine /\ crlf' = {}
  ELSE serdata' = serdata /\ crlf' = crlf \cup {data}

(* Mutant: a single line end is dropped before the next character *)
CharacterAlone(data) == serdata' = Append(serdata, IF data = "NUL" THEN "space" ELSE data) /\ crlf' = {}

Character(data) ==
  /\ serdata' = (IF crlf # {} THEN serdata \o NewLine ELSE serdata) \o <<IF data = "NUL" THEN "space" ELSE data>>
  /\ crlf' = {}

serial_data_handler(data) ==
  /\ sent' = Append(sent, data)
  /\ IF data = "ESC" \/ escape_sequence_pos > 0
     THEN Escape(data) /\ UNCHANGED <<crlf, serdata>>
     ELSE /\ UNCHANGED <<escape_sequence_pos, aborted>>
          /\ IF data \in LineEnds THEN LineEnd(data) ELSE Character(data)

serial_data_flush ==
  /\ serdata # <<>>
  /\ seen' = seen \o serdata /\ serdata' = <<>>
  /\ UNCHANGED <<escape_sequence_pos, crlf, sent, aborted>>

SerialNext ==
  /\ aborted = FALSE
  /\ \/ /\ Len(sent) < MaxSent
        /\ \E data \in Bytes : serial_data_handler(data)
        /\ UNCHANGED seen
     \/ serial_data_flush

SerialSpec == SerialInit /\ [][SerialNext]_serial_vars

-----------------------------------------------------------------------------
(* The characters of a text, with one line end between two of them that    *)
(* have any                                                                 *)
EndLine(lines) == IF lines = <<>> \/ lines[Len(lines)] = "end" THEN lines ELSE Append(lines, "end")
AddByte(lines, byte) ==
  IF byte \in LineEnds THEN EndLine(lines) ELSE Append(lines, IF byte = "NUL" THEN "space" ELSE byte)

Lines(text) ==
  LET lines[n \in 0 .. Len(text)] == IF n = 0 THEN <<>> ELSE AddByte(lines[n - 1], text[n])
  IN  lines[Len(text)]

(* A text without its escape sequences, each up to its first letter *)
Unescape(before, byte) ==
  [escape |-> byte = "ESC" \/ (before.escape /\ byte # "letter"),
   text |-> IF byte = "ESC" \/ before.escape THEN before.text ELSE Append(before.text, byte)]

Unescaped(text) ==
  LET before[n \in 0 .. Len(text)] ==
        IF n = 0 THEN [escape |-> FALSE, text |-> <<>>] ELSE Unescape(before[n - 1], text[n])
  IN  before[Len(text)]
Plain(text) == Unescaped(text).text

(***************************************************************************)
(* Wherever it was cut by flushes, the text shown has the lines of the one *)
(* sent, blank lines aside: no character is lost, moved or shown twice, no *)
(* escape sequence shows, and lines are neither joined nor broken.  (Blank *)
(* lines are lost when their ends do not come in pairs: see the README.)   *)
(***************************************************************************)
TextKeepsItsLines ==
  ~aborted => Lines(seen \o serdata \o (IF crlf = {} THEN <<>> ELSE NewLine)) = Lines(Plain(sent))
=============================================================================
