------------------------------- MODULE MCRaft -------------------------------
(* A small instance of Raft for TLC. *)
EXTENDS Raft

CONSTANTS opening, payment

\* The accounts and a first transfer in one batch; a second transfer on its own.
MCRequest ==
    LET account(id, flags) ==
          [type |-> "CreateAccount", id |-> id, flags |-> flags, scale |-> Currency,
           timestamp |-> 1]
        transfer(id) ==
          [type |-> "Transfer", transfer |-> NewTransfer(id, 1, 2, 1, "Posted", id)]
    IN  opening :> <<account(1, bank_asset_flags), account(2, customer_flags), transfer(1)>>
        @@ payment :> <<transfer(2)>>

\* The founder apart from the others.
MCSplit == {<<{Founder}, Node \ {Founder}>>}
=============================================================================
