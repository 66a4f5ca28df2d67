----------------------------- MODULE MCProcess -----------------------------
(***************************************************************************)
(* A process from its start to the fills: the vault that it waits for, the *)
(* pipeline that fetches deals within the limiter's window, and the fills  *)
(* that the tracker counts.  They share no state: Init picks one of them,  *)
(* and every step is a step of that one.  The fills are those of a buy and *)
(* a take profit at one venue, with every fault of TakeProfit.             *)
(***************************************************************************)
EXTENDS MCDealPipeline, Vault, TakeProfit

CONSTANTS v1, buy, sell, w1

VARIABLE part

OneVenue == [o \in Orders |-> v1]
Twos == [o \in Orders |-> 2]

allVars == <<part, vaultVars, vars, takeProfitVars>>

MCInit == part \in {"vault", "calls", "fills"} /\ InitVault /\ Init /\ InitTakeProfit

\* Handlers and trades come to an end; polls do not.
Ended == part # "calls" /\ UNCHANGED <<vaultVars, vars, takeProfitVars>>

MCNext ==
    /\ UNCHANGED part
    /\ \/ part = "vault" /\ NextVault /\ UNCHANGED <<vars, takeProfitVars>>
       \/ part = "calls" /\ Next /\ UNCHANGED <<vaultVars, takeProfitVars>>
       \/ part = "fills" /\ NextTakeProfit /\ UNCHANGED <<vaultVars, vars>>
       \/ Ended

\* In the other parts no handler of the vault runs, and its main goroutine is not started.
MCSpec == MCInit /\ [][MCNext]_allVars /\ FairnessVault
=============================================================================
