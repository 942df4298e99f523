------------------------------ MODULE Catalog ------------------------------
(***************************************************************************)
(* How an edit of an area's catalogue reaches a phone: the handlers that   *)
(* edit it, the two in-process caches the public reads go through, the     *)
(* conditional GET keyed on catalog_version and the phone that keeps what  *)
(* it was last served.                                                     *)
(*                                                                         *)
(* What is served is abstracted to the number of edits it contains.  One   *)
(* area, one zone and one phone; every awaited query is a step of its own, *)
(* what runs between two awaits is one step.                               *)
(***************************************************************************)
EXTENDS Integers

CONSTANTS
    Writers,     \* admin and shop requests that may edit at once
    Syncs,       \* conditional GETs of the bootstrap in flight at once
    Refreshes,   \* plain GETs of the settings in flight at once
    MaxEdits     \* (bound) edits in a behaviour

None == -1       \* no entry, no version, nothing read

ASSUME BoundAssumption == MaxEdits \in Nat
ASSUME KindAssumption == Syncs \cap Refreshes = {}

Requests == Syncs \cup Refreshes

VARIABLES
    content,     \* edits committed: what a read of the rows returns
    version,     \* areas.catalog_version
    cache,       \* "area": areasCache, "body": settingsCache
    writer,      \* statement each editing handler is at
    request,     \* each GET: statement, If-None-Match, its two reads
    phone,       \* what the phone shows, the version it sends as its tag
    slipped      \* (history) one of the cases the tag cannot see happened

vars == <<content, version, cache, writer, request, phone, slipped>>

server == <<content, version, cache, writer>>

Keys == {"area", "body"}
Values == Nat
WriterSteps == {"idle", "edited", "dropped", "bump", "bumped"}

Reads == [at : {"unread", "asked", "loaded", "done"}, val : Values \cup {None}]
Unread == [at |-> "unread", val |-> None]

IdleRequest ==
    [pc |-> "idle", tag |-> None,
     read |-> [k \in Keys |-> Unread]]

RequestTypes ==
    [pc : {"idle", "tag", "compose", "notModified"},
     tag : Values \cup {None},
     read : [Keys -> Reads]]

TypeOK ==
    /\ content \in Values
    /\ version \in Values
    /\ cache \in [Keys -> Values \cup {None}]
    /\ writer \in [Writers -> WriterSteps]
    /\ request \in [Requests -> RequestTypes]
    /\ phone \in [shows : Values, holds : Values \cup {None}]
    /\ slipped \in BOOLEAN

\* A process that has just started and a phone whose stores were hydrated
\* from a launch before the edits.
Init ==
    /\ content = 0
    /\ version = 0
    /\ cache = [k \in Keys |-> None]
    /\ writer = [w \in Writers |-> "idle"]
    /\ request = [r \in Requests |-> IdleRequest]
    /\ phone = [shows |-> 0, holds |-> None]
    /\ slipped = FALSE

-----------------------------------------------------------------------------
(* ttlCache.wrap: get, load, set.  Loads are not shared: an entry deleted  *)
(* while a load is in flight is set again when the load returns.           *)

Stored(k) == IF k = "area" THEN version ELSE content

Ask(k) ==
    IF cache[k] # None THEN [at |-> "done", val |-> cache[k]]
                       ELSE [at |-> "asked", val |-> None]

Finished(r, k) == request[r].read[k].at = "done"

Query(r, k) ==
    /\ request[r].read[k].at = "asked"
    /\ request' = [request EXCEPT
           ![r].read[k] = [at |-> "loaded", val |-> Stored(k)]]
    /\ UNCHANGED <<server, slipped, phone>>

Fill(r, k) ==
    /\ request[r].read[k].at = "loaded"
    /\ cache' = [cache EXCEPT ![k] = request[r].read[k].val]
    /\ request' = [request EXCEPT ![r].read[k].at = "done"]
    /\ UNCHANGED <<content, version, writer, slipped, phone>>

\* Mutant: the body's entry is kept for ever.
ExpireAreaOnly(k) ==
    /\ k = "area"
    /\ cache[k] # None
    /\ cache' = [cache EXCEPT ![k] = None]
    /\ UNCHANGED <<content, version, writer, request, slipped, phone>>

\* The entry is older than its TTL: the next get deletes it.
Expire(k) ==
    /\ cache[k] # None
    /\ cache' = [cache EXCEPT ![k] = None]
    /\ UNCHANGED <<content, version, writer, request, slipped, phone>>

-----------------------------------------------------------------------------
(* An editing handler, as updateSettings: UPDATE, drop the settings entry, *)
(* read the row back, announce, bust the area's caches, count the version, *)
(* drop the areas entry.                                                   *)

Edit(w) ==
    /\ writer[w] = "idle"
    /\ content < MaxEdits
    /\ content' = content + 1
    /\ writer' = [writer EXCEPT ![w] = "edited"]
    /\ UNCHANGED <<version, cache, request, slipped, phone>>

\* Mutant: the settings entry is dropped and the version never counted.
DropSettingsOnly(w) ==
    /\ writer[w] = "edited"
    /\ cache' = [cache EXCEPT !["body"] = None]
    /\ writer' = [writer EXCEPT ![w] = "idle"]
    /\ UNCHANGED <<content, version, request, slipped, phone>>

DropSettings(w) ==
    /\ writer[w] = "edited"
    /\ cache' = [cache EXCEPT !["body"] = None]
    /\ writer' = [writer EXCEPT ![w] = "dropped"]
    /\ UNCHANGED <<content, version, request, slipped, phone>>

\* A read of the body is under way, in the server or to the phone, and what it
\* found is no longer what the rows say.
Straddled ==
    \E r \in Requests : request[r].read["body"].val \notin {None, content}

\* bustAreaCaches up to its await.
Bust(w) ==
    /\ writer[w] = "dropped"
    /\ cache' = [cache EXCEPT !["body"] = None]
    /\ writer' = [writer EXCEPT ![w] = "bump"]
    /\ slipped' = (slipped \/ Straddled)
    /\ UNCHANGED <<content, version, request, phone>>

BumpVersion(w) ==
    /\ writer[w] = "bump"
    /\ version' = version + 1
    /\ writer' = [writer EXCEPT ![w] = "bumped"]
    /\ UNCHANGED <<content, cache, request, slipped, phone>>

DropAreas(w) ==
    /\ writer[w] = "bumped"
    /\ cache' = [cache EXCEPT !["area"] = None]
    /\ writer' = [writer EXCEPT ![w] = "idle"]
    /\ UNCHANGED <<content, version, request, slipped, phone>>

\* A query of the handler fails: what follows it in the handler never runs.
Throws(w) ==
    /\ writer[w] \in {"dropped", "bump"}
    /\ writer' = [writer EXCEPT ![w] = "idle"]
    /\ slipped' = TRUE
    /\ UNCHANGED <<content, version, cache, request, phone>>

-----------------------------------------------------------------------------
(* The phone and the public routes.                                        *)

Start(r, tag) ==
    /\ request[r].pc = "idle"
    /\ request' = [request EXCEPT ![r] =
           [pc |-> "tag", tag |-> tag,
            read |-> [area |-> Ask("area"), body |-> Unread]]]
    /\ UNCHANGED <<server, slipped, phone>>

\* syncAreaInfo, on a pin move: GET /bootstrap with the stored version.
SyncAreaInfo(r) == r \in Syncs /\ Start(r, phone.holds)

\* loadHomeData, on a cold start, a pull or settings past their five minutes:
\* the same GET.
LoadHomeData(r) == r \in Syncs /\ Start(r, phone.holds)

\* refreshDashboardSilently, on focus, foreground, reconnect or a push:
\* GET /settings without If-None-Match.
RefreshSilently(r) == r \in Refreshes /\ Start(r, None)

\* getBootstrap reads the areas row again; getSettings does not.
AreaRead(r) ==
    IF r \in Syncs THEN Ask("area") ELSE [at |-> "done", val |-> None]

Compose(r) ==
    [request[r] EXCEPT
        !.pc = "compose",
        !.tag = None,
        !.read = [area |-> AreaRead(r), body |-> Ask("body")]]

\* bootstrapCatalogETag and catalogETag.
CheckTag(r) ==
    /\ request[r].pc = "tag"
    /\ Finished(r, "area")
    /\ request' = [request EXCEPT ![r] =
           IF @.tag = @.read["area"].val
           THEN [IdleRequest EXCEPT !.pc = "notModified"]
           ELSE Compose(r)]
    /\ UNCHANGED <<server, slipped, phone>>

Reset(r) == request' = [request EXCEPT ![r] = IdleRequest]

\* Mutant: the answer is sent without waiting for the reads.
ComposedUnawaited(r) == request[r].pc = "compose"

\* Both reads are in: the answer goes out, and is under way until received.
Composed(r) == request[r].pc = "compose" /\ \A k \in Keys : Finished(r, k)

\* The phone stores a full answer: a bootstrap in applyBootstrapResult, whose
\* two stores persist one after the other, the settings alone otherwise.
ReceiveBootstrap(r) ==
    /\ r \in Syncs /\ Composed(r)
    /\ phone' = [shows |-> request[r].read["body"].val,
                 holds |-> request[r].read["area"].val]
    /\ Reset(r)
    /\ UNCHANGED <<server, slipped>>

\* ... and the app is killed in between: the next launch hydrates both.
ReceiveKilled(r) ==
    /\ r \in Syncs /\ Composed(r)
    /\ phone' = [phone EXCEPT !.holds = request[r].read["area"].val]
    /\ slipped' = TRUE
    /\ Reset(r)
    /\ UNCHANGED server

ReceiveSettings(r) ==
    /\ r \in Refreshes /\ Composed(r)
    /\ phone' = [phone EXCEPT !.shows = request[r].read["body"].val]
    /\ Reset(r)
    /\ UNCHANGED <<server, slipped>>

\* A 304: the phone keeps what it shows.
ReceiveNotModified(r) ==
    /\ request[r].pc = "notModified"
    /\ Reset(r)
    /\ UNCHANGED <<server, slipped, phone>>

\* The answer, or the query it waits for, is lost: best effort on the phone.
Lost(r) ==
    /\ \/ Composed(r)
       \/ /\ request[r].pc = "compose"
          /\ Finished(r, "area") /\ request[r].read["body"].at = "asked"
    /\ Reset(r)
    /\ UNCHANGED <<server, slipped, phone>>

-----------------------------------------------------------------------------
WriterStep(w) ==
    \/ DropSettings(w)
    \/ Bust(w)
    \/ BumpVersion(w)
    \/ DropAreas(w)
    \/ Throws(w)

Receive(r) ==
    \/ ReceiveBootstrap(r)
    \/ ReceiveKilled(r)
    \/ ReceiveSettings(r)
    \/ ReceiveNotModified(r)
    \/ Lost(r)

RequestStep(r) ==
    \/ \E k \in Keys : Query(r, k) \/ Fill(r, k)
    \/ CheckTag(r)
    \/ Receive(r)

Next ==
    \/ \E w \in Writers : Edit(w) \/ WriterStep(w)
    \/ \E r \in Requests :
           \/ SyncAreaInfo(r) \/ LoadHomeData(r) \/ RefreshSilently(r)
           \/ RequestStep(r)
    \/ \E k \in Keys : Expire(k)

Spec == Init /\ [][Next]_vars

Fairness ==
    /\ \A w \in Writers : WF_vars(WriterStep(w))
    /\ \A r \in Requests : WF_vars(RequestStep(r))
    /\ \A k \in Keys : WF_vars(Expire(k))

FairSpec == Spec /\ Fairness

-----------------------------------------------------------------------------
(* Properties.                                                             *)

\* A handler has committed an edit and not yet busted the caches; ... and not
\* yet counted the version.
Unbusted == \E w \in Writers : writer[w] \in {"edited", "dropped"}
Uncounted == \E w \in Writers : writer[w] \in {"edited", "dropped", "bump"}

\* A 304 tells the phone that what it shows is current: once the handlers have
\* counted, a phone that holds the area's version shows the last edit.  The order
\* UPDATE, bust, count and the two caches give this but for three cases: a read
\* that straddles a bust, a handler that dies before it has counted, and an app
\* killed between the saves of its two stores.
ConfirmedIsFresh ==
    /\ phone.holds = version
    /\ ~Uncounted
    /\ ~slipped
    => phone.shows = content

\* A phone whose unconditional refreshes are answered again and again ends up
\* showing the last edit, whatever was cached by loads that straddled an edit,
\* which handlers died half-way and in which order answers arrived.
PhoneCatchesUp ==
    []<><<\E r \in Requests : ReceiveSettings(r)>>_vars
        => <>[](phone.shows = content)

=============================================================================
