------------------------------ MODULE AuxDataHash ------------------------------
(***************************************************************************)
(* What the auxiliary-data hash builder promises its caller, without its   *)
(* twelve states and its two hash contexts.  A registration, once opened,  *)
(* is a body of tokens shared by the payload and the aux data, then a      *)
(* tail that only the aux data receives.  The payload digest is of the     *)
(* framed body, taken before the tail begins; the aux-data digest is of    *)
(* the framed body and tail, and once it is written nothing is appended.   *)
(* An aborted operation does nothing until it is restarted.                *)
(***************************************************************************)
EXTENDS Naturals, Sequences

CONSTANTS
  AuxFrame,      \* tokens that open the aux data before the body
  PayloadFrame,  \* tokens that open the payload before the body
  NoDigest,      \* no digest written
  BadDigest      \* bytes that are not the digest of a stream

VARIABLES
  opened,      \* the registration has been entered
  body,        \* tokens appended to both digests
  tail,        \* tokens appended to the aux-data digest only
  auxOut,      \* the aux-data digest written
  payloadOut,  \* the payload digest written
  aborted      \* the operation failed

absVars == <<opened, body, tail, auxOut, payloadOut, aborted>>

\* t is s with at least one token appended.
Extends(s, t) == Len(t) > Len(s) /\ SubSeq(t, 1, Len(s)) = s

Restart ==
  /\ opened' = FALSE /\ body' = <<>> /\ tail' = <<>>
  /\ auxOut' = NoDigest /\ payloadOut' = NoDigest /\ aborted' = FALSE

AbsInit ==
  /\ opened = FALSE /\ body = <<>> /\ tail = <<>>
  /\ auxOut = NoDigest /\ payloadOut = NoDigest /\ aborted = FALSE

\* Appends are accepted while the operation runs and no digest of the aux
\* data has been written.
Appending == ~aborted /\ auxOut = NoDigest

Open ==
  /\ Appending /\ ~opened
  /\ opened' = TRUE
  /\ UNCHANGED <<body, tail, auxOut, payloadOut, aborted>>

ExtendBody ==
  /\ Appending /\ opened /\ tail = <<>>
  /\ Extends(body, body')
  /\ UNCHANGED <<opened, tail, auxOut, payloadOut, aborted>>

FinalizePayload ==
  /\ Appending /\ opened /\ tail = <<>>
  /\ payloadOut' \in {PayloadFrame \o body, BadDigest}
  /\ UNCHANGED <<opened, body, tail, auxOut, aborted>>

ExtendTail ==
  /\ Appending /\ opened
  /\ Extends(tail, tail')
  /\ UNCHANGED <<opened, body, auxOut, payloadOut, aborted>>

Finalize ==
  /\ Appending /\ opened /\ tail # <<>>
  /\ auxOut' = AuxFrame \o body \o tail
  /\ UNCHANGED <<opened, body, tail, payloadOut, aborted>>

Abort ==
  /\ ~aborted
  /\ aborted' = TRUE
  /\ UNCHANGED <<opened, body, tail, auxOut, payloadOut>>

AbsNext ==
  \/ Restart \/ Open \/ ExtendBody \/ FinalizePayload \/ ExtendTail
  \/ Finalize \/ Abort

AbsSpec == AbsInit /\ [][AbsNext]_absVars
=============================================================================
