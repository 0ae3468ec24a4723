------------------------------ MODULE MCQRCard ------------------------------
(* One card, two phones and a gateway. *)
EXTENDS QRCard
=============================================================================
