------------------------------ MODULE Quitacao ------------------------------
(***************************************************************************)
(* What the client of a boleto is promised: it is paid once and for all,   *)
(* and its payment is announced after it, at most once.  How the payment   *)
(* gets here, through two webhooks or by hand, is left open.               *)
(***************************************************************************)
EXTENDS Naturals

CONSTANT Boletos

VARIABLES
  pagos,    \* boletos that are paid
  avisos    \* per boleto: e-mails that announced its payment

vars == <<pagos, avisos>>

Init == pagos = {} /\ avisos = [b \in Boletos |-> 0]

Pagar(b) ==
  /\ b \notin pagos
  /\ pagos' = pagos \cup {b}
  /\ UNCHANGED avisos

Avisar(b) ==
  /\ b \in pagos
  /\ avisos[b] = 0
  /\ avisos' = [avisos EXCEPT ![b] = 1]
  /\ UNCHANGED pagos

Next == \E b \in Boletos : Pagar(b) \/ Avisar(b)

Spec == Init /\ [][Next]_vars
=============================================================================
