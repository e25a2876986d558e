------------------------------ MODULE MultiSign ------------------------------
(***************************************************************************)
(* How a committee signs its time beacons (committee/multisign.go) and     *)
(* what Layer1 makes of them (addTB in eth_chain/timebeacon.sol).  The     *)
(* leader's worker asks all consensus nodes, itself included, to sign a    *)
(* TB, waits for MultiSignRequiredNum answers, or until it is closed, and  *)
(* sends the TB with what it has to Layer1.  Requests and replies of one   *)
(* node are handled in the order they were sent, however late.  A TB is    *)
(* known by its height.  All nodes sign, as vrfResultIsGood holds of every *)
(* value.  Vrfs are noted with the signatures.                             *)
(***************************************************************************)
EXTENDS Integers, FiniteSets

CONSTANTS
    ComNode,              \* the committee's consensus nodes
    MultiSignRequiredNum, \* how many signatures a TB needs
    MaxTB                 \* bound: TBs

ASSUME MultiSignAssumption ==
    /\ IsFiniteSet(ComNode)
    /\ MultiSignRequiredNum \in 1 .. Cardinality(ComNode)
    /\ MaxTB \in Nat

VARIABLES
    workerAt,             \* what the worker does
    exitToken,            \* whether its exitCh holds an element
    tb,                   \* the TB it does it for; the last one before that
    handled,              \* ComNode -> the last request it has replied to
    received,             \* ComNode -> the last of its replies the leader has handled
    Signers,              \* multiSignData: the replies whose signer is noted
    Sigs,                 \* multiSignData: the replies whose signature is noted
    MultiSignDone,        \* whether there is a token in this channel
    sent,                 \* TB -> what it was sent to Layer1 with, and whether for exitCh
    late                  \* history: TBs in whose signing a reply for an earlier one was noted

signVars == <<workerAt, exitToken, tb, handled, received, Signers, Sigs, MultiSignDone, sent, late>>

TB       == 1 .. MaxTB
Reply    == ComNode \X TB      \* who signed, and which TB
SignedTB == [Signers : SUBSET Reply, Sigs : SUBSET Reply, cut : BOOLEAN]

\* The types; a TB never gets more signers than required.
SignTypeOK ==
    /\ workerAt \in {"loop", "block", "clearSigs", "request", "wait", "exited"}
    /\ exitToken \in BOOLEAN
    /\ tb \in 0 .. MaxTB
    /\ handled \in [ComNode -> 0 .. MaxTB] /\ received \in [ComNode -> 0 .. MaxTB]
    /\ Signers \subseteq Reply /\ Cardinality(Signers) <= MultiSignRequiredNum
    /\ Sigs \subseteq Reply
    /\ MultiSignDone \in BOOLEAN
    /\ DOMAIN sent \subseteq TB /\ \A h \in DOMAIN sent : sent[h] \in SignedTB
    /\ late \subseteq TB

SignInit ==
    /\ workerAt = "loop" /\ exitToken = FALSE /\ tb = 0
    /\ handled = [n \in ComNode |-> 0] /\ received = [n \in ComNode |-> 0]
    /\ Signers = {} /\ Sigs = {} /\ MultiSignDone = FALSE
    /\ sent = [h \in {} |-> {}]
    /\ late = {}

-----------------------------------------------------------------------------
(* The worker's loop, and what ends it.                                     *)

\* The committee is closed, once.
closeCommittee ==
    /\ ~exitToken /\ workerAt # "exited"
    /\ exitToken' = TRUE
    /\ UNCHANGED <<workerAt, tb, handled, received, Signers, Sigs, MultiSignDone, sent, late>>

\* The loop looks at exitCh before the timer, of 3 seconds or more, fires.
exitLoop ==
    /\ workerAt = "loop" /\ exitToken
    /\ workerAt' = "exited" /\ exitToken' = FALSE
    /\ UNCHANGED <<tb, handled, received, Signers, Sigs, MultiSignDone, sent, late>>

\* The worker makes a block.  When closed meanwhile, it gives up PBFT, not the TB.
commitBlock ==
    /\ workerAt = "loop" /\ ~exitToken
    /\ tb < MaxTB
    /\ workerAt' = "block"
    /\ UNCHANGED <<exitToken, tb, handled, received, Signers, Sigs, MultiSignDone, sent, late>>

-----------------------------------------------------------------------------
(* initMultiSign takes no lock while it clears multiSignData.  Until Signers*)
(* is cleared it is full, so that no reply is being noted, and the handler  *)
(* can be one step.                                                         *)

\* Mutant: the signers of the last TB are not cleared.
clearSigners_Kept ==
    /\ workerAt = "block"
    /\ tb' = tb + 1
    /\ workerAt' = "clearSigs"
    /\ UNCHANGED <<exitToken, handled, received, Signers, Sigs, MultiSignDone, sent, late>>

clearSigners ==
    /\ workerAt = "block"
    /\ tb' = tb + 1
    /\ Signers' = {}
    /\ workerAt' = "clearSigs"
    /\ UNCHANGED <<exitToken, handled, received, Sigs, MultiSignDone, sent, late>>

clearSigs ==
    /\ workerAt = "clearSigs"
    /\ Sigs' = {}
    /\ workerAt' = "request"
    /\ UNCHANGED <<exitToken, tb, handled, received, Signers, MultiSignDone, sent, late>>

\* A new channel is made and the request is sent to all nodes.
sendRequest ==
    /\ workerAt = "request"
    /\ MultiSignDone' = FALSE
    /\ workerAt' = "wait"
    /\ UNCHANGED <<exitToken, tb, handled, received, Signers, Sigs, sent, late>>

\* initMultiSign returns what is noted by now, with enough signatures or, cut short, for
\* exitCh, whose element it puts back; SendTB sends it all the same.
SendTB(cut) ==
    /\ workerAt = "wait"
    /\ IF cut THEN exitToken /\ UNCHANGED MultiSignDone ELSE MultiSignDone /\ MultiSignDone' = FALSE
    /\ sent' = [h \in DOMAIN sent \cup {tb} |->
                   IF h = tb THEN [Signers |-> Signers, Sigs |-> Sigs, cut |-> cut] ELSE sent[h]]
    /\ workerAt' = "loop"
    /\ UNCHANGED <<exitToken, tb, handled, received, Signers, Sigs, late>>

-----------------------------------------------------------------------------

requested == IF workerAt \in {"clearSigs", "request"} THEN tb - 1 ELSE tb

HandleMultiSignRequest(n) ==
    /\ handled[n] < requested
    /\ handled' = [handled EXCEPT ![n] = @ + 1]
    /\ UNCHANGED <<workerAt, exitToken, tb, received, Signers, Sigs, MultiSignDone, sent, late>>

EnoughSigners == Cardinality(Signers) >= MultiSignRequiredNum

\* Mutant: one signature too few is enough.
Complete_OneLess(sigs) == Cardinality(sigs) = MultiSignRequiredNum - 1

Complete(sigs) == Cardinality(sigs) = MultiSignRequiredNum

\* The signature is checked against the TB the reply names, not the one being signed.
HandleMultiSignReply(n) ==
    /\ received[n] < handled[n]
    /\ received' = [received EXCEPT ![n] = @ + 1]
    /\ \/ /\ EnoughSigners
          /\ UNCHANGED <<Signers, Sigs, MultiSignDone, late>>
       \/ /\ ~EnoughSigners
          /\ Signers' = Signers \cup {<<n, received'[n]>>}
          /\ Sigs' = Sigs \cup {<<n, received'[n]>>}
          /\ MultiSignDone' = (MultiSignDone \/ Complete(Sigs'))
          /\ late' = late \cup {h \in {tb} : received'[n] < h}
    /\ UNCHANGED <<workerAt, exitToken, tb, handled, sent>>

SignNext ==
    \/ closeCommittee \/ exitLoop \/ commitBlock
    \/ clearSigners \/ clearSigs \/ sendRequest \/ \E cut \in BOOLEAN : SendTB(cut)
    \/ \E n \in ComNode : HandleMultiSignRequest(n) \/ HandleMultiSignReply(n)

SignSpec == SignInit /\ [][SignNext]_signVars

\* The worker's own steps follow one another; every request and reply is handled.
FairSignSpec ==
    /\ SignSpec
    /\ WF_signVars(exitLoop \/ commitBlock \/ clearSigners \/ clearSigs \/ sendRequest
                   \/ \E cut \in BOOLEAN : SendTB(cut))
    /\ \A n \in ComNode : WF_signVars(HandleMultiSignRequest(n)) /\ WF_signVars(HandleMultiSignReply(n))

-----------------------------------------------------------------------------
(* Layer1.                                                                  *)

\* addTB's count of valid signatures: signatures of this TB, each paired with its signer.
validSigCnt(h) == Cardinality({r \in sent[h].Sigs \cap sent[h].Signers : r[2] = h})

\* addTB accepts it; a TB it does not accept has an event emitted that ends every
\* node that subscribes to Layer1's events.
Accepted(h) == validSigCnt(h) >= MultiSignRequiredNum

(* Properties.                                                              *)

\* A TB whose signing was not cut short is sent with as many signatures as required, each
\* with its signer (addTB pairs them by index), although replies may come while the data
\* is being cleared; and Layer1 accepts it, unless a reply for an earlier TB was noted in
\* its signing, which HandleMultiSignReply does not tell apart.
SentIsComplete ==
    \A h \in DOMAIN sent : ~sent[h].cut =>
        /\ sent[h].Signers = sent[h].Sigs /\ Cardinality(sent[h].Sigs) = MultiSignRequiredNum
        /\ Accepted(h) \/ h \in late

\* Only the last TB of a worker that has been closed is sent incomplete: initMultiSign
\* puts the element of exitCh back, so that the loop finds it.
CutIsLast ==
    \A h \in DOMAIN sent : sent[h].cut => h = tb /\ (exitToken \/ workerAt = "exited")

\* Both: which TBs Layer1 gets that it does not accept, whatever is late.
WellSigned == SentIsComplete /\ CutIsLast

\* The worker gets its signatures for every TB, or is closed, and goes on ("wait for the
\* multi-signature to complete"), unless a reply for an earlier TB was noted.
SigningEnds == \A h \in TB : tb = h ~> h \in DOMAIN sent \cup late
=============================================================================
