----------------------------- MODULE MCInquiry -----------------------------
(* Inquiry for TLC. *)
EXTENDS Inquiry, TLC

CONSTANTS i1, i2, a1, a2, text

OneInquiry == {i1}
TwoInquiries == {i1, i2}
OneAdmin == {a1}
TwoAdmins == {a1, a2}
OneAnswer == {text}
=============================================================================
