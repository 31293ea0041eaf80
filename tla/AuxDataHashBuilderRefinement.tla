-------------------- MODULE AuxDataHashBuilderRefinement --------------------
(***************************************************************************)
(* The builder of auxDataHashBuilder.c as an implementation of AuxDataHash. *)
(* Past its framing, the payload context is the body; what the aux-data    *)
(* context holds beyond its framing and the body is the tail.              *)
(***************************************************************************)
EXTENDS AuxDataHashBuilder

\* The body: the payload context without its map(1) header.
bodyBar == IF state = "INIT" THEN <<>> ELSE Tail(payloadHash)

\* The tail: the aux-data tokens after array(2), map(2) and the body.
tailBar ==
  IF state = "INIT" THEN <<>>
  ELSE SubSeq(auxHash, Len(payloadHash) + 2, Len(auxHash))

Abs == INSTANCE AuxDataHash WITH
         AuxFrame <- <<Tok("ARRAY", 2), Tok("MAP", 2)>>,
         PayloadFrame <- <<Tok("MAP", 1)>>,
         opened <- state # "INIT",
         body <- bodyBar,
         tail <- tailBar

(* The builder implements its abstract contract: every call of             *)
(* auxDataHashBuilder.c, a failing ASSERT included, either leaves the      *)
(* abstract state alone or is one abstract step, so the fields of the      *)
(* registration (enterPayload ... addVotingPurpose) reach both contexts    *)
(* identically, the signature and the scripts reach only the aux data and *)
(* come after every payload field, and nothing is hashed after finalize.   *)
BuilderImplementsAuxDataHash == Abs!AbsSpec
=============================================================================
