-------------------------------- MODULE Node --------------------------------
(***************************************************************************)
(* A desktop's copy of what the Brain shows its member (node.rs): the last *)
(* complete projection, the pages of the one being read, and at most one   *)
(* confirmed message that waits for its acknowledgement.                   *)
(*                                                                         *)
(* The operators are the methods of Node; m is the member of its binding.  *)
(***************************************************************************)
EXTENDS Brain

\* Where reading starts when no pages are pending.
FirstRequest(rev) == [after |-> rev, at |-> None, offset |-> 0]

NewView ==
    [rev |-> 0, records |-> [n \in {} |-> None], sync |-> None, ready |-> FALSE,
     uncertain |-> {}, pending |-> None]

ReconcileRequest(v) == IF v.sync = None THEN FirstRequest(v.rev) ELSE v.sync.request

\* The batch a page is added to.
PendingSync(v) ==
    IF v.sync # None THEN v.sync
    ELSE [request |-> FirstRequest(v.rev), records |-> v.records, seen |-> {}]

\* The page continues the batch and brings no record twice.
PageFits(m, batch, p) ==
    /\ PageValid(p)
    /\ p.member = m
    /\ p.after = batch.request.after /\ p.offset = batch.request.offset
    /\ batch.request.at # None => batch.request.at = p.at
    /\ p.name \notin batch.seen

\* A complete projection has one owner, no dangling reference, and this member.
Coherent(m, device, records) ==
    LET kind(k) == {n \in DOMAIN records : n[1] = k} IN
    /\ \A n \in kind("node") :
         LET owner == <<"member", records[n].member>> IN
         /\ owner \in DOMAIN records
         /\ records[n].online => ~records[owner].revoked
    /\ \A n \in kind("task") :
         LET sender == <<"node", records[n].sender>> IN
         sender \in DOMAIN records /\ records[sender].member = m
    /\ Cardinality({n \in kind("member") : records[n].owner /\ ~records[n].revoked}) = 1
    /\ Cardinality(kind("member")) <= MaxMembers /\ Cardinality(kind("node")) <= MaxMembers
    /\ Cardinality(kind("task")) <= MaxTasks
    /\ <<"member", m>> \in DOMAIN records /\ ~records[<<"member", m>>].revoked
    /\ <<"node", m>> \in DOMAIN records /\ records[<<"node", m>>].member = m
    /\ records[<<"node", m>>].device = device

(***************************************************************************)
(* accept_page: the view it leaves, and whether the page was refused.  The *)
(* pending batch is taken first, so a refused page discards it.            *)
(***************************************************************************)
AcceptPage(v, m, device, p) ==
    LET batch == PendingSync(v)
        records == IF p.name = None THEN batch.records ELSE Put(batch.records, p.name, p.data)
        seen == IF p.name = None THEN batch.seen ELSE batch.seen \cup {p.name}
        refused == [ok |-> FALSE, view |-> [v EXCEPT !.ready = FALSE, !.sync = None]]
    IN  IF ~PageFits(m, batch, p) \/ Cardinality(DOMAIN records) > MaxSharedRecords
        THEN refused
        ELSE IF p.next # None
        THEN [ok |-> TRUE,
              view |-> [v EXCEPT !.ready = FALSE,
                          !.sync = [request |-> [after |-> p.after, at |-> p.at,
                                                 offset |-> p.next],
                                    records |-> records, seen |-> seen]]]
        ELSE IF ~Coherent(m, device, records) THEN refused
        ELSE [ok |-> TRUE,
              view |-> [v EXCEPT !.ready = TRUE, !.sync = None,
                                 !.rev = p.at, !.records = records]]

\* Mutant of Disconnected: running tasks are not marked.
DisconnectedSure(v) == [v EXCEPT !.ready = FALSE, !.sync = None]

\* Tasks seen running when the connection ends can no longer be vouched for.
Disconnected(v) ==
    [v EXCEPT !.ready = FALSE, !.sync = None,
              !.uncertain = @ \cup {t \in TaskIds :
                                      /\ <<"task", t>> \in DOMAIN v.records
                                      /\ v.records[<<"task", t>>].status = "running"}]

\* The status the desktop shows.
ShownStatus(v, t) ==
    LET stored == v.records[<<"task", t>>].status IN
    IF stored = "running" /\ (~v.ready \/ t \in v.uncertain) THEN "outcomeUnknown" ELSE stored

\* queue_confirmed takes a message, or the waiting one again.
CanQueue(v, key, payload) ==
    v.pending = None \/ v.pending = [key |-> key, payload |-> payload]
Queued(v, key, payload) == [v EXCEPT !.pending = [key |-> key, payload |-> payload]]

CanSend(v) == v.ready /\ v.pending # None
Outgoing(v) == [key |-> v.pending.key, payload |-> v.pending.payload, rev |-> v.rev]

\* acknowledge: the next projection has to be read again.
CanAcknowledge(v, key, revision) ==
    revision \in 1..MaxRevision /\ v.pending # None /\ v.pending.key = key
Acknowledged(v) == [v EXCEPT !.pending = None, !.ready = FALSE, !.sync = None]
=============================================================================
