------------------------------ MODULE MCSettles ------------------------------
(***************************************************************************)
(* Small instances for TLC of the jobs and calls that must come to an end. *)
(* They share no state: a behaviour is one of exactly one of them, chosen  *)
(* at the start.                                                           *)
(***************************************************************************)
EXTENDS PriceAlerts, PositionAlerts, DnsAdmission, HistoryPaging

MCKeyOf == [d \in Danger |-> "k1"]

VARIABLE work

MCVars == <<work, priceVars, positionVars, dnsVars, pagingVars>>

MCInit ==
    /\ work \in {"price", "position", "dns", "paging"}
    /\ PriceInit /\ PositionInit /\ DnsInit
    /\ IF work = "paging" THEN PagingInit
       ELSE /\ answers = [paged |-> TRUE, pages |-> TRUE, ids |-> TRUE, advances |-> TRUE, totals |-> TRUE]
            /\ atExchange = 0 /\ reading = [FreshReading(0) EXCEPT !.pc = "done"]

MCNext ==
    /\ UNCHANGED work
    /\ \/ work = "price" /\ PriceNext /\ UNCHANGED <<positionVars, dnsVars, pagingVars>>
       \/ work = "position" /\ PositionNext /\ UNCHANGED <<priceVars, dnsVars, pagingVars>>
       \/ work = "dns" /\ DnsNext /\ UNCHANGED <<priceVars, positionVars, pagingVars>>
       \/ work = "paging" /\ PagingNext /\ UNCHANGED <<priceVars, positionVars, dnsVars>>

(***************************************************************************)
(* The fairness of the four modules.  An action that is enabled in the     *)
(* initial state of a module that was not chosen need not be taken.        *)
(***************************************************************************)
MCFairness ==
    /\ \A j \in Job : WF_priceVars(work = "price" /\ Check(j))
    /\ \A j \in Job, a \in Alert : SF_priceVars(Flush(j, a))
    /\ WF_positionVars(work = "position" /\ Works)
    /\ \A k \in AlertKey : WF_positionVars(Ages(k))
    /\ \A e \in ConnectedExchange : SF_positionVars(EvaluateRow(e))
    /\ \A d \in Danger : SF_positionVars(SendDanger(d))
    /\ DnsFairness
    /\ PagingFairness

MCSpec == MCInit /\ [][MCNext]_MCVars /\ MCFairness

=============================================================================
