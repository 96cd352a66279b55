----------------------------- MODULE MCVolumes -----------------------------
(* A folder with a directory that has one file in it                        *)
EXTENDS Volumes

CONSTANTS a, b

MCName(up, comps) == [up |-> up, comps |-> comps, slash |-> FALSE]

MCPacketNames == {MCName(0, <<>>), MCName(0, <<a>>), MCName(0, <<b>>)}

MCNewNames == {MCName(0, <<>>), MCName(0, <<b>>), MCName(1, <<a, b>>), MCName(0, <<Dots>>)}

MCHost == [p \in Paths |-> CASE p = <<>> -> "dir" [] p = <<a>> -> "dir"
                             [] p = <<a, b>> -> "file" [] OTHER -> "none"]
=============================================================================
