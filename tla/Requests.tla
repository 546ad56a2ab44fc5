------------------------------ MODULE Requests ------------------------------
(***************************************************************************)
(* A request on its way through the service: authentication, the scope     *)
(* check at the application service, for Create and Describe the dataset's *)
(* descriptor from the provider, and the operation itself (service.go,     *)
(* catalog.go, provider.go, the handlers of both transports).              *)
(*                                                                         *)
(* Every goroutine that serves requests is a caller of OutboundCalls, and  *)
(* all of them share the breakers.  What an operation does to a job is in  *)
(* ExportJobs; here a job is its place in the order (created_at, id) of    *)
(* the lists, and one list is followed: that of the filter with which some *)
(* client reads page after page.                                           *)
(***************************************************************************)
EXTENDS OutboundCalls, RequestRules

CONSTANTS
    Application,    \* outbound.grpc.application, the application service
    Provider,       \* the connection to an instance of the provider
    Inputs,         \* what an export may ask for
    Descriptors,    \* what a provider may answer about the dataset
    Pages, Sizes,   \* page numbers and page sizes of requests
    Existing,       \* jobs listed at first
    WalkSize,       \* the page size of the client that reads the whole list
    MaxRequests,    \* bound: requests, other calls and changes of the list
    MaxRows         \* bound: jobs

ASSUME ScopeAssumption ==
    /\ {Application, Provider} \subseteq Upstreams \ HttpUpstreams
    /\ Application # Provider
\* Selected columns are a list.
ASSUME InputAssumption == \A input \in Inputs : input.selected \in Seq(STRING)
\* There are fewer jobs than an int32 counts.
ASSUME ListAssumption ==
    /\ Pages \subseteq 0..(IntLimit - 1) /\ Sizes \subseteq 0..(IntLimit - 1)
    /\ WalkSize \in 1..ListLimit
    /\ MaxRequests \in Nat /\ MaxRows \in 1..(IntLimit - 1)
    /\ Existing \subseteq 1..MaxRows

VARIABLES
    request,        \* [Callers -> Requests]: the request a goroutine serves
    rows,           \* the jobs that match the reader's filter, newest first
    walk,           \* the client that reads the list page by page
    received        \* requests, other calls and changes of the list so far

serviceVars == <<request, rows, walk, received>>
vars == <<callVars, serviceVars>>

-----------------------------------------------------------------------------

\* denied is the client's doing (unauthorized, forbidden, invalid, conflict, not
\* found), failed the service's or an upstream's (unavailable, internal).
Verdicts == {"none", "ok", "denied", "failed"}

\* Which operation a request is for is decided when the code first looks: until
\* then all are alike.  entitled, granted and fits record what was true when the
\* code decided, whatever it decided.
Requests ==
    [stage : {"idle", "scope", "scoped", "describe", "reread", "answered"},
     entitled : BOOLEAN,    \* the credential speaks for the tenant
     granted : BOOLEAN,     \* the application service has granted the scope
     fits : BOOLEAN,        \* an export to create fits the provider's descriptor
     committed : BOOLEAN,   \* a transaction has changed a job
     verdict : Verdicts]

NoRequest == [stage |-> "idle", entitled |-> FALSE, granted |-> FALSE,
              fits |-> TRUE, committed |-> FALSE, verdict |-> "none"]

\* next is the page to ask for; owed are the jobs listed when page 1 was read;
\* left counts the departures from the list since then.
NoWalk == [next |-> 1, owed |-> {}, seen |-> {}, left |-> 0, done |-> FALSE]

Jobs == 1..MaxRows

TypeOK ==
    /\ CallTypeOK
    /\ request \in [Callers -> Requests]
    /\ rows \in Seq(Jobs)
    /\ walk \in [next : Nat, owed : SUBSET Jobs, seen : SUBSET Jobs, left : Nat,
                 done : BOOLEAN]
    /\ received \in 0..MaxRequests

Listed == {rows[i] : i \in DOMAIN rows}

\* The client has read a page and will read another.  (Bound: the status of jobs
\* changes only then.  What it was before is what Existing says, and afterwards it
\* makes no difference to the reader.)
Reading == walk.next > 1 /\ ~walk.done

\* Newest first: a younger job has a greater number.
Descending(list) == \A i, j \in DOMAIN list : i < j => list[i] > list[j]

\* Earlier requests have left some jobs.  A job that is not listed is yet to be
\* created, or its status is another one.
Init ==
    /\ CallInit
    /\ request = [c \in Callers |-> NoRequest]
    /\ \E n \in 0..MaxRows : rows \in [1..n -> Jobs]
    /\ Descending(rows) /\ Listed = Existing
    /\ walk = NoWalk
    /\ received = 0

-----------------------------------------------------------------------------

Receives == received < MaxRequests /\ received' = received + 1

Answered(c, verdict) ==
    [request[c] EXCEPT !.stage = "answered", !.verdict = verdict]

Becomes(c, r) == request' = [request EXCEPT ![c] = r]

\* The client has its answer, or there was none.
Free(c) == request[c].stage \in {"idle", "answered"} /\ call[c].pc = "idle"

\* The credential speaks for the tenant: it is the pre-shared key where that
\* is asked for, or, where a token is, a service's or one of that tenant.
Entitled(route, credential, tenant) ==
    CASE route = "psk" -> credential = "psk"
      [] route = "skip" -> FALSE
      [] OTHER -> credential = "service" \/ (tenant # "" /\ credential = tenant)

\* The interceptor or middleware, then the handler up to the verifier.
Decide(route, credential, tenant, application) ==
    LET who == authenticateGRPC(route, credential)
    IN  IF \E p \in who : ScopeVerdict(p, tenant, application) = "ok"
        THEN "ok" ELSE "denied"

\* What requests come to, with or without a tenant and an application.
Arrivals ==
    {a \in [entitled : BOOLEAN, verdict : {"ok", "denied"}] :
        \E route \in {"psk", "skip", "token"}, credential \in Credentials,
           tenant \in {"", "t1", "t2"}, application \in {"", "a1"} :
            /\ a.entitled = Entitled(route, credential, tenant)
            /\ a.verdict = Decide(route, credential, tenant, application)}

\* A request arrives and is answered at once, or its scope is to be verified.
\* repeatable: the method is listed for retries or the request carries a key.
Receive(c, arrival, repeatable) ==
    /\ Free(c)
    /\ Receives
    /\ \/ /\ arrival.verdict # "ok"
          /\ Becomes(c, [NoRequest EXCEPT !.stage = "answered", !.verdict = "denied"])
          /\ UNCHANGED callVars
       \/ /\ arrival.verdict = "ok"
          /\ Begin(c, Application, repeatable)
          /\ Becomes(c, [NoRequest EXCEPT !.stage = "scope",
                                          !.entitled = arrival.entitled])
    /\ UNCHANGED <<rows, walk>>

\* Verify has returned: any error other than ErrNotGranted is told as an
\* outage.  How the library classifies a code that is not about the
\* upstream's health is left open.
Verified(c, granted) ==
    /\ request[c].stage \in {"scope", "reread"}
    /\ Release(c)
    /\ LET r == [request[c] EXCEPT !.granted = @ \/ granted]
       IN  CASE call[c].outcome = "ok" /\ granted /\ r.stage = "scope" ->
                    Becomes(c, [r EXCEPT !.stage = "scoped"])
             [] call[c].outcome = "ok" /\ granted /\ r.stage = "reread" ->
                    Becomes(c, Answered(c, "ok"))
             [] call[c].outcome = "ok" /\ ~granted ->
                    Becomes(c, Answered(c, "denied"))
             [] call[c].outcome = "refused" ->
                    Becomes(c, Answered(c, IF granted THEN "failed" ELSE "denied"))
             [] OTHER -> ~granted /\ Becomes(c, Answered(c, "failed"))
    /\ UNCHANGED <<rows, walk, received>>

-----------------------------------------------------------------------------
(* Operations on jobs *)

Scoped(c) == request[c].stage = "scoped"

\* Get and CreateDownloadURL (the answers are in ExportJobs).
Read(c, verdict) ==
    /\ Scoped(c)
    /\ verdict \in {"ok", "denied", "failed"}
    /\ Becomes(c, Answered(c, verdict))
    /\ UNCHANGED <<callVars, rows, walk, received>>

\* Cancel and Retry end with a Get, and so with a second verification, after
\* the transaction.  A key that is already the row's skips both.
Change(c, verdict, repeatable) ==
    /\ Scoped(c)
    /\ \/ /\ verdict \in {"denied", "failed", "ok"}
          /\ Becomes(c, Answered(c, verdict))
          /\ UNCHANGED callVars
       \/ /\ verdict = "none"
          /\ Begin(c, Application, repeatable)
          /\ Becomes(c, [request[c] EXCEPT !.stage = "reread", !.committed = TRUE])
    /\ UNCHANGED <<rows, walk, received>>

\* Create and Describe check codes, format and key, and pick a connection.
Ask(c, verdict, repeatable) ==
    /\ Scoped(c)
    /\ \/ /\ verdict \in {"denied", "failed"}
          /\ Becomes(c, Answered(c, verdict))
          /\ UNCHANGED callVars
       \/ /\ verdict = "none"
          /\ Begin(c, Provider, repeatable)
          /\ Becomes(c, [request[c] EXCEPT !.stage = "describe"])
    /\ UNCHANGED <<rows, walk, received>>

\* No descriptor: the call failed, or the answer is about another dataset.
NotDescribed(c) ==
    /\ request[c].stage = "describe"
    /\ Release(c)
    /\ Becomes(c, Answered(c, "failed"))
    /\ UNCHANGED <<rows, walk, received>>

\* What validateDataset says of an export, and what is the case.
Exports == {[valid |-> validateDataset(input, dataset),
             fits |-> FitsDataset(input, dataset)] :
                input \in Inputs, dataset \in Descriptors}

\* Job j gets into the list, where it belongs.
Enlist(j) ==
    \E p \in 1..(Len(rows) + 1) :
        /\ \A i \in DOMAIN rows : IF i < p THEN rows[i] > j ELSE rows[i] < j
        /\ rows' = [i \in 1..(Len(rows) + 1) |->
                      IF i < p THEN rows[i] ELSE IF i = p THEN j ELSE rows[i - 1]]

\* Create's transaction inserts the row, finds it, or finds another export
\* under its key.  The creation time was taken before: rows of concurrent
\* requests may get in front of this one.
CreateDescribed(c, export, verdict) ==
    /\ request[c].stage = "describe"
    /\ call[c].outcome = "ok"
    /\ Release(c)
    /\ \/ /\ verdict = "denied"
          /\ ~export.valid
          /\ Becomes(c, Answered(c, verdict))
          /\ UNCHANGED rows
       \/ /\ verdict \in {"ok", "failed"}    \* failed: the commit's answer is lost
          /\ export.valid
          /\ UNCHANGED rows \/ \E j \in Jobs : Enlist(j)
          /\ Becomes(c, [Answered(c, verdict) EXCEPT
                !.committed = TRUE, !.fits = export.fits])
       \/ /\ verdict \in {"ok", "denied", "failed"}
          /\ export.valid
          /\ Becomes(c, Answered(c, verdict))
          /\ UNCHANGED rows
    /\ UNCHANGED <<walk, received>>

\* Catalog.Describe hands the descriptor on.
Describe(c) ==
    /\ request[c].stage = "describe"
    /\ call[c].outcome = "ok"
    /\ Release(c)
    /\ Becomes(c, Answered(c, "ok"))
    /\ UNCHANGED <<rows, walk, received>>

-----------------------------------------------------------------------------
(* Lists *)

\* The client reads on when it got the page after the last one, and starts
\* anew with the first; a page that is not full is the last.  (Not the total
\* decides: it is counted by a query of its own, before the rows are read.)
WalkedOn(page, shown) ==
    LET got == {rows[i] : i \in shown}
        from == IF page = 1
                THEN [NoWalk EXCEPT !.owed = Listed]
                ELSE walk
    IN  IF page = 1 \/ (page = walk.next /\ ~walk.done)
        THEN [from EXCEPT !.next = page + 1, !.seen = @ \cup got,
                          !.done = Cardinality(shown) < WalkSize]
        ELSE walk

\* Service.List and the repository's queries, which may fail.  The list is the
\* reader's, or one of another filter or page size: by dataset, by status, by
\* time of creation.
ServeList(c, page, size) ==
    LET filter == ListFilter(page, size)
        shown == Positions(filter, Len(rows))
    IN  /\ Scoped(c)
        /\ \/ /\ Becomes(c, Answered(c, "failed"))
              /\ UNCHANGED walk
           \/ /\ ~Refuses(filter)
              /\ Becomes(c, Answered(c, "ok"))
              /\ \/ UNCHANGED walk
                 \/ filter.size = WalkSize /\ walk' = WalkedOn(filter.page, shown)
        /\ UNCHANGED <<callVars, rows, received>>

\* Catalog.List and ListDatasets: the instances come from the discovery cache.
ServeCatalog(c, page, size) ==
    /\ Scoped(c)
    /\ Becomes(c, Answered(c, IF Refuses(normalizeCatalogPage(page, size))
                              THEN "failed" ELSE "ok"))
    /\ UNCHANGED <<callVars, rows, walk, received>>

\* Without a registry the catalogue is empty; without a fresh snapshot of it,
\* unavailable.
NoDiscovery(c, verdict) ==
    /\ Scoped(c)
    /\ verdict \in {"ok", "failed"}
    /\ Becomes(c, Answered(c, verdict))
    /\ UNCHANGED <<callVars, rows, walk, received>>

\* The job at position i leaves the list and those behind it move up: it is
\* purged, or it is claimed, completed, failed, canceled, retried or expired and
\* the reader asks for its former status (ExportJobs), ...
Leaves(i) ==
    /\ Reading /\ Receives
    /\ rows' = [j \in 1..(Len(rows) - 1) |-> IF j < i THEN rows[j] ELSE rows[j + 1]]
    /\ walk' = [walk EXCEPT !.left = @ + 1]
    /\ UNCHANGED <<callVars, request>>

\* ... or a job gets the status the reader asks for, and its place in the list.
Enters(j) ==
    /\ Reading /\ Receives
    /\ Enlist(j)
    /\ UNCHANGED <<callVars, request, walk>>

-----------------------------------------------------------------------------
(* The rest *)

\* A call of the service's own, to an HTTP upstream.
CallPartner(c, u, repeatable) ==
    /\ Free(c) /\ u \in HttpUpstreams
    /\ Receives
    /\ Begin(c, u, repeatable)
    /\ Becomes(c, NoRequest)
    /\ UNCHANGED <<rows, walk>>

PartnerDone(c) ==
    /\ request[c].stage = "idle"
    /\ Release(c)
    /\ UNCHANGED serviceVars

-----------------------------------------------------------------------------

\* What the goroutine does when it is not waiting for an upstream.
Handle(c) ==
    \/ \E granted \in BOOLEAN : Verified(c, granted)
    \/ \E verdict \in Verdicts : Read(c, verdict) \/ NoDiscovery(c, verdict)
    \/ \E verdict \in Verdicts, repeatable \in BOOLEAN :
            Change(c, verdict, repeatable) \/ Ask(c, verdict, repeatable)
    \/ NotDescribed(c)
    \/ \E export \in Exports, verdict \in Verdicts :
            CreateDescribed(c, export, verdict)
    \/ Describe(c)
    \/ \E page \in Pages, size \in Sizes :
            ServeList(c, page, size) \/ ServeCatalog(c, page, size)

Arrive(c) ==
    \/ \E arrival \in Arrivals, repeatable \in BOOLEAN :
            Receive(c, arrival, repeatable)
    \/ \E u \in HttpUpstreams, repeatable \in BOOLEAN : CallPartner(c, u, repeatable)

Next ==
    \/ \E c \in Callers :
        \/ Arrive(c)
        \/ CallStep(c) /\ UNCHANGED serviceVars
        \/ Handle(c)
        \/ PartnerDone(c)
    \/ \E u \in Upstreams : OpenTimeout(u) /\ UNCHANGED serviceVars
    \/ \E i \in DOMAIN rows : Leaves(i)
    \/ \E j \in Jobs : Enters(j)

Spec == Init /\ [][Next]_vars

\* Go runs a goroutine that can run, timers fire, and timeoutInterceptor gives
\* every gRPC call a deadline.  Upstreams need not answer.
Fairness ==
    \A c \in Callers :
        /\ WF_vars(Handle(c))
        /\ WF_vars(Expire(c) /\ ~IsHttp(UpstreamOf(c)) /\ UNCHANGED serviceVars)
        /\ WF_vars((Interrupt(c) \/ Consider(c)) /\ UNCHANGED serviceVars)
        /\ WF_vars((Resume(c) \/ Abandon(c)) /\ UNCHANGED serviceVars)

FairSpec == Spec /\ Fairness

-----------------------------------------------------------------------------

\* A job is changed, and a request answered well, only for a credential that
\* speaks for the tenant and an application the application service has
\* granted; and a job is created only if its export fits the descriptor of the
\* provider that will be asked to run it, in every order of checks, outages,
\* retries and second verifications (authenticateGRPC, authorize,
\* authorizeScope, verifyCatalogScope, validateDataset).
OnlyTheEntitled ==
    \A c \in Callers :
        LET r == request[c]
        IN  r.committed \/ r.verdict = "ok" =>
                r.entitled /\ r.granted /\ r.fits

\* A client that reads page after page until one is not full has missed no more
\* of the jobs that were listed when it began than have left the list since:
\* none, if it filters by no status and nothing is purged, whatever is created
\* meanwhile.  Offsets over (created_at, id) descending shift towards the reader
\* by what is inserted, also when a job returns at its old place, and skip one
\* job for each that leaves (repository.go List).
WalkMissesOnlyForLeft ==
    walk.done => Cardinality(walk.owed \ walk.seen) <= walk.left

\* Every request is answered, also when an upstream never is (timeouts on
\* every call, breakers that refuse, bounded retries).
RequestAnswered ==
    \A c \in Callers :
        request[c].stage \notin {"idle", "answered"} ~> Free(c)
=============================================================================
