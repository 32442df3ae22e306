---------------------------- MODULE MCConversion ----------------------------
(***************************************************************************)
(* An instance of Conversion for TLC: encode takes jpegFile to jxlFile,    *)
(* and decode, of a batch, replaces jxlFile by its own conversion, or      *)
(* converts bytes.                                                         *)
(***************************************************************************)
EXTENDS Conversion

CONSTANTS encode, decode, jpegFile, jxlFile, folder, other

MCKinds == [c \in Conversions |-> IF c = encode THEN {"path"} ELSE {"image", "bytes"}]
\* One of them has a timeout, of half a millisecond or of one and a half.
MCTimeouts == {[c \in Conversions |-> IF c # d THEN 0 ELSE IF d = encode THEN 1 ELSE 3] :
                  d \in Conversions}
MCInput == [c \in Conversions |-> IF c = encode THEN jpegFile ELSE jxlFile]
MCSizes == [p \in Paths |-> {1}]
MCOutput == [c \in Conversions |-> jxlFile]
MCScopes == [c \in Conversions |-> IF c = encode THEN <<folder, folder>>
                                   ELSE <<other, folder>>]
=============================================================================
