--------------------------- MODULE Catalog_proofs ---------------------------
(***************************************************************************)
(* What a conditional GET confirms, for any number of handlers and GETs.   *)
(***************************************************************************)
EXTENDS Catalog, TLAPS

\* No version the phone, a read or the areas cache holds is above the column.
VersionsSeen ==
    /\ cache["area"] <= version
    /\ \A r \in Requests : request[r].read["area"].val <= version
    /\ phone.holds <= version

\* A read of the body that has found it holds a value.
BodiesRead ==
    \A r \in Requests :
        request[r].read["body"].at \in {"loaded", "done"}
            => request[r].read["body"].val # None

\* Outside the three cases, an old body is in the cache or under way only
\* while some handler has still to bust, and on the phone only while one has
\* still to count or the phone's tag is an older version.
OldBodies ==
    ~slipped =>
        /\ cache["body"] \notin {None, content} => Unbusted
        /\ Straddled => Unbusted
        /\ phone.shows # content => Uncounted \/ phone.holds # version

IInv == TypeOK /\ VersionsSeen /\ BodiesRead /\ OldBodies

USE DEF None, Keys, Values

\* A step that leaves a request and writes another record of its type keeps the
\* type of the whole function.
LEMMA RequestUpdate ==
    ASSUME request \in [Requests -> RequestTypes],
           NEW r \in Requests, NEW q \in RequestTypes,
           request' = [request EXCEPT ![r] = q]
    PROVE  /\ request' \in [Requests -> RequestTypes]
           /\ request'[r] = q
           /\ \A s \in Requests \ {r} : request'[s] = request[s]
OBVIOUS

\* What Ask, Compose and IdleRequest return has its type.
LEMMA AskType ==
    ASSUME TypeOK, NEW k \in Keys
    PROVE  /\ Ask(k) \in Reads
           /\ Ask(k).at \in {"asked", "done"}
           /\ Ask(k).val \in {None, cache[k]}
           /\ Ask(k).at = "done" => Ask(k).val # None
<1>1. cache[k] \in Values \cup {None}
  BY DEF TypeOK
<1>2. CASE cache[k] # None
  BY <1>1, <1>2 DEF Ask, Reads
<1>3. CASE cache[k] = None
  BY <1>1, <1>3 DEF Ask, Reads
<1>4. QED
  BY <1>2, <1>3

LEMMA IdleType ==
    /\ IdleRequest \in RequestTypes
    /\ IdleRequest.read["area"].val = None
    /\ IdleRequest.read["body"] = [at |-> "unread", val |-> None]
BY DEF IdleRequest, RequestTypes, Reads, Unread


\* What a step of a GET does to its request: its reads hold what they held,
\* what the cache holds or what the rows say.
NewRead(r, q) ==
    /\ q \in RequestTypes
    /\ request' = [request EXCEPT ![r] = q]
    /\ q.read["area"].val \in {None, version, cache["area"], request[r].read["area"].val}
    /\ q.read["body"].val \in {None, content, cache["body"], request[r].read["body"].val}
    /\ q.read["body"].at \in {"loaded", "done"} => q.read["body"].val # None

\* The steps that change a request and leave the rest to the other actions.
RequestMoves(r) ==
    \/ \E k \in Keys : Query(r, k) \/ Fill(r, k)
    \/ CheckTag(r) \/ SyncAreaInfo(r) \/ LoadHomeData(r) \/ RefreshSilently(r)
    \/ Receive(r)

\* Every such step is of that kind.
LEMMA RequestEffect ==
    ASSUME TypeOK, BodiesRead, NEW r \in Requests, RequestMoves(r)
    PROVE  \E q : NewRead(r, q)
<1>0. /\ request \in [Requests -> RequestTypes]
      /\ request[r] \in RequestTypes
      /\ request[r].read \in [Keys -> Reads]
      /\ \A k \in Keys : request[r].read[k] \in Reads
      /\ content \in Nat /\ version \in Nat
      /\ request[r].read["body"].at \in {"loaded", "done"}
            => request[r].read["body"].val # None
  BY DEF TypeOK, BodiesRead, RequestTypes
<1>1. ASSUME NEW k \in Keys, Query(r, k) PROVE \E q : NewRead(r, q)
  <2> DEFINE d == [at |-> "loaded", val |-> Stored(k)]
             q == [request[r] EXCEPT !.read = [@ EXCEPT ![k] = d]]
  <2>1. d \in Reads /\ d.val # None /\ d.val = Stored(k)
    BY <1>0 DEF Stored, Reads
  <2>2. request' = [request EXCEPT ![r] = q]
    BY <1>1, <1>0 DEF Query, RequestTypes
  <2>3. /\ q \in RequestTypes
        /\ q.read = [request[r].read EXCEPT ![k] = d]
    BY <1>0, <2>1 DEF RequestTypes
  <2>4. /\ q.read[k] = d
        /\ \A j \in Keys \ {k} : q.read[j] = request[r].read[j]
    BY <1>0, <2>3
  <2>5. NewRead(r, q)
    <3> HIDE DEF q, d
    <3> QED
      BY <1>0, <2>1, <2>2, <2>3, <2>4 DEF NewRead, Stored
  <2>6. QED
    BY <2>5
<1>2. ASSUME NEW k \in Keys, Fill(r, k) PROVE \E q : NewRead(r, q)
  <2> DEFINE d == [request[r].read[k] EXCEPT !.at = "done"]
             q == [request[r] EXCEPT !.read = [@ EXCEPT ![k] = d]]
  <2>1. d \in Reads /\ d.val = request[r].read[k].val
    BY <1>0 DEF Reads
  <2>2. request' = [request EXCEPT ![r] = q]
    BY <1>2, <1>0 DEF Fill, RequestTypes
  <2>3. /\ q \in RequestTypes
        /\ q.read = [request[r].read EXCEPT ![k] = d]
    BY <1>0, <2>1 DEF RequestTypes
  <2>4. /\ q.read[k] = d
        /\ \A j \in Keys \ {k} : q.read[j] = request[r].read[j]
    BY <1>0, <2>3
  <2>5. request[r].read[k].at = "loaded"
    BY <1>2 DEF Fill
  <2>6. NewRead(r, q)
    <3> HIDE DEF q, d
    <3> QED
      BY <1>0, <2>1, <2>2, <2>3, <2>4, <2>5 DEF NewRead
  <2>7. QED
    BY <2>6
<1>3. CASE CheckTag(r)
  <2>1. CASE request[r].tag = request[r].read["area"].val
    <3> DEFINE q == [IdleRequest EXCEPT !.pc = "notModified"]
    <3>1. /\ q \in RequestTypes
          /\ q.read["area"].val = None
          /\ q.read["body"] = [at |-> "unread", val |-> None]
      BY IdleType DEF RequestTypes
    <3>2. request' = [request EXCEPT ![r] = q]
      BY <1>3, <1>0, <2>1 DEF CheckTag
    <3>3. NewRead(r, q)
      BY <3>1, <3>2 DEF NewRead
    <3>4. QED
      BY <3>3
  <2>2. CASE request[r].tag # request[r].read["area"].val
    <3> DEFINE d == [area |-> AreaRead(r), body |-> Ask("body")]
    <3>1. request' = [request EXCEPT ![r] = Compose(r)]
      BY <1>3, <1>0, <2>2 DEF CheckTag
    <3>2. /\ Ask("area") \in Reads /\ Ask("body") \in Reads
          /\ Ask("area").val \in {None, cache["area"]}
          /\ Ask("body").val \in {None, cache["body"]}
          /\ Ask("body").at = "done" => Ask("body").val # None
          /\ Ask("body").at \in {"asked", "done"}
      BY AskType
    <3>3. /\ AreaRead(r) \in Reads
          /\ AreaRead(r) \in {Ask("area"), [at |-> "done", val |-> None]}
      BY <3>2 DEF AreaRead, Reads
    <3>4. /\ d \in [Keys -> Reads]
          /\ d["area"] \in {Ask("area"), [at |-> "done", val |-> None]}
          /\ d["body"] = Ask("body")
      BY <3>2, <3>3
    <3>5. Compose(r) \in RequestTypes /\ Compose(r).read = d
      <4> HIDE DEF d
      <4>1. Compose(r) = [request[r] EXCEPT !.pc = "compose", !.tag = None, !.read = d]
        BY DEF Compose, d
      <4>2. QED
        BY <1>0, <3>4, <4>1 DEF RequestTypes
    <3>6. NewRead(r, Compose(r))
      <4> HIDE DEF d
      <4>1. d["area"].val \in {None, cache["area"]}
        BY <3>2, <3>4
      <4>2. QED
        BY <3>1, <3>2, <3>4, <3>5, <4>1 DEF NewRead
    <3>7. QED
      BY <3>6
  <2>3. QED
    BY <2>1, <2>2
<1>4. ASSUME NEW t \in Nat \cup {None}, Start(r, t) PROVE \E q : NewRead(r, q)
  <2> DEFINE q == [pc |-> "tag", tag |-> t,
                   read |-> [area |-> Ask("area"), body |-> Unread]]
  <2>1. /\ Ask("area") \in Reads
        /\ Ask("area").val \in {None, cache["area"]}
    BY AskType
  <2>2. q \in RequestTypes
    BY <2>1 DEF RequestTypes, Reads, Unread
  <2>3. NewRead(r, q)
    BY <1>4, <2>1, <2>2 DEF NewRead, Start, Unread
  <2>4. QED
    BY <2>3
<1>5. CASE SyncAreaInfo(r) \/ LoadHomeData(r)
  BY <1>4, <1>5 DEF SyncAreaInfo, LoadHomeData, TypeOK
<1>6. CASE RefreshSilently(r)
  BY <1>4, <1>6 DEF RefreshSilently
<1>7. CASE Receive(r)
  <2>1. request' = [request EXCEPT ![r] = IdleRequest]
    BY <1>7 DEF Receive, ReceiveBootstrap, ReceiveKilled, ReceiveSettings,
                ReceiveNotModified, Lost, Reset
  <2>2. NewRead(r, IdleRequest)
    BY <2>1, IdleType DEF NewRead
  <2>3. QED
    BY <2>2
<1>8. QED
  BY <1>1, <1>2, <1>3, <1>5, <1>6, <1>7 DEF RequestMoves

\* What such a step does to the rest: the entry it fills and the phone it
\* answers take what one of its reads holds.
LEMMA MoveEffect ==
    ASSUME TypeOK, BodiesRead, NEW r \in Requests, RequestMoves(r)
    PROVE  /\ UNCHANGED <<content, version, writer>>
           /\ \/ cache' = cache
              \/ \E k \in Keys : cache' = [cache EXCEPT ![k] = request[r].read[k].val]
           /\ phone' \in [shows : Nat, holds : Nat \cup {None}]
           /\ phone'.shows \in {phone.shows, request[r].read["body"].val}
           /\ phone'.holds \in {phone.holds, request[r].read["area"].val}
           /\ phone'.holds # phone.holds
                 => slipped' \/ phone'.shows = request[r].read["body"].val
           /\ slipped => slipped'
           /\ slipped' \in BOOLEAN
<1>0. /\ request[r] \in RequestTypes
      /\ request[r].read \in [Keys -> Reads]
      /\ request[r].read["area"] \in Reads /\ request[r].read["body"] \in Reads
      /\ phone \in [shows : Nat, holds : Nat \cup {None}]
      /\ slipped \in BOOLEAN
      /\ request[r].read["area"].val \in Nat \cup {None}
      /\ Finished(r, "body") => request[r].read["body"].val \in Nat
  BY DEF TypeOK, BodiesRead, RequestTypes, Reads, Finished
<1>1. ASSUME NEW k \in Keys, Query(r, k) \/ Fill(r, k)
      PROVE  /\ UNCHANGED <<content, version, writer, phone, slipped>>
             /\ \/ cache' = cache
                \/ cache' = [cache EXCEPT ![k] = request[r].read[k].val]
  BY <1>1 DEF Query, Fill, server
<1>2. CASE CheckTag(r) \/ SyncAreaInfo(r) \/ LoadHomeData(r) \/ RefreshSilently(r)
           \/ ReceiveNotModified(r) \/ Lost(r)
  <2>1. UNCHANGED <<content, version, cache, writer, phone, slipped>>
    BY <1>2 DEF CheckTag, SyncAreaInfo, LoadHomeData, RefreshSilently, Start,
                ReceiveNotModified, Lost, server
  <2>2. QED
    BY <2>1, <1>0
<1>3. CASE ReceiveBootstrap(r) \/ ReceiveSettings(r) \/ ReceiveKilled(r)
  <2>1. /\ UNCHANGED <<content, version, cache, writer>>
        /\ Finished(r, "body")
    BY <1>3 DEF ReceiveBootstrap, ReceiveSettings, ReceiveKilled, Composed, server
  <2>2. CASE ReceiveBootstrap(r)
    BY <2>1, <2>2, <1>0 DEF ReceiveBootstrap
  <2>3. CASE ReceiveSettings(r)
    BY <2>1, <2>3, <1>0 DEF ReceiveSettings
  <2>4. CASE ReceiveKilled(r)
    BY <2>1, <2>4, <1>0 DEF ReceiveKilled
  <2>5. QED
    BY <1>3, <2>2, <2>3, <2>4
<1>4. QED
  BY <1>0, <1>1, <1>2, <1>3 DEF RequestMoves, Receive

\* A step of a GET keeps the invariant.
LEMMA MoveStep ==
    ASSUME IInv, NEW r \in Requests, RequestMoves(r)
    PROVE  IInv'
<1>0. TypeOK /\ VersionsSeen /\ BodiesRead /\ OldBodies
  BY DEF IInv
<1>1. PICK q : NewRead(r, q)
  BY <1>0, RequestEffect
<1>2. /\ request' \in [Requests -> RequestTypes]
      /\ request'[r] = q
      /\ \A s \in Requests \ {r} : request'[s] = request[s]
      /\ q \in RequestTypes
  BY <1>0, <1>1, RequestUpdate DEF NewRead, TypeOK
<1>3. /\ content' = content /\ version' = version /\ writer' = writer
      /\ \/ cache' = cache
         \/ \E k \in Keys : cache' = [cache EXCEPT ![k] = request[r].read[k].val]
      /\ phone' \in [shows : Nat, holds : Nat \cup {None}]
      /\ phone'.shows \in {phone.shows, request[r].read["body"].val}
      /\ phone'.holds \in {phone.holds, request[r].read["area"].val}
      /\ phone'.holds # phone.holds
            => slipped' \/ phone'.shows = request[r].read["body"].val
      /\ slipped => slipped'
      /\ slipped' \in BOOLEAN
  BY <1>0, MoveEffect
<1>4. /\ \A s \in Requests, k \in Keys : request[s].read[k].val \in Nat \cup {None}
      /\ content \in Nat /\ version \in Nat
      /\ cache \in [Keys -> Nat \cup {None}]
      /\ phone.shows \in Nat /\ phone.holds \in Nat \cup {None}
  BY <1>0 DEF TypeOK, RequestTypes, Reads
<1>5. /\ cache' \in [Keys -> Nat \cup {None}]
      /\ cache'["area"] \in {cache["area"], request[r].read["area"].val}
      /\ cache'["body"] \in {cache["body"], request[r].read["body"].val}
  BY <1>3, <1>4
<1>6. TypeOK'
  BY <1>0, <1>2, <1>3, <1>5 DEF TypeOK
<1>7. VersionsSeen'
  <2>1. q.read["area"].val <= version
    BY <1>0, <1>1, <1>4 DEF NewRead, VersionsSeen
  <2>2. \A s \in Requests : request'[s].read["area"].val <= version
    BY <2>1, <1>0, <1>2 DEF VersionsSeen
  <2>3. QED
    BY <2>2, <1>0, <1>3, <1>5 DEF VersionsSeen
<1>8. BodiesRead'
  BY <1>0, <1>1, <1>2 DEF BodiesRead, NewRead
<1>9. OldBodies'
  <2> SUFFICES ASSUME ~slipped'
               PROVE  /\ cache'["body"] \notin {None, content} => Unbusted
                      /\ Straddled' => Unbusted
                      /\ phone'.shows # content => Uncounted \/ phone'.holds # version
    BY <1>3 DEF OldBodies, Unbusted, Uncounted
  <2>1. /\ cache["body"] \notin {None, content} => Unbusted
        /\ Straddled => Unbusted
        /\ phone.shows # content => Uncounted \/ phone.holds # version
    BY <1>0, <1>3 DEF OldBodies
  <2>2. request[r].read["body"].val \notin {None, content} => Unbusted
    BY <2>1 DEF Straddled
  <2>3. q.read["body"].val \notin {None, content} => Unbusted
    BY <2>1, <2>2, <1>1 DEF NewRead
  <2>4. Straddled' => Unbusted
    BY <2>1, <2>3, <1>2, <1>3 DEF Straddled
  <2>5. cache'["body"] \notin {None, content} => Unbusted
    BY <2>1, <2>2, <1>5
  <2>6. ASSUME phone'.shows # content PROVE Uncounted \/ phone'.holds # version
    <3>1. Unbusted => Uncounted
      BY DEF Unbusted, Uncounted
    <3>2. CASE phone'.shows = request[r].read["body"].val
      BY <2>2, <2>6, <3>1, <3>2, <1>3, <1>4
    <3>3. CASE phone'.shows # request[r].read["body"].val
      BY <2>1, <2>6, <3>3, <1>3
    <3>4. QED
      BY <3>2, <3>3
  <2>7. QED
    BY <2>4, <2>5, <2>6
<1>10. QED
  BY <1>6, <1>7, <1>8, <1>9 DEF IInv

\* An entry dropped, by its age or by a handler, is none and the others stay.
LEMMA EntryDropped ==
    ASSUME cache \in [Keys -> Nat \cup {None}], NEW k \in Keys,
           cache' = [cache EXCEPT ![k] = None]
    PROVE  /\ cache' \in [Keys -> Nat \cup {None}]
           /\ cache'[k] = None
           /\ \A j \in Keys \ {k} : cache'[j] = cache[j]
OBVIOUS

\* A step of an editing handler keeps the invariant.
LEMMA WriterStepOK ==
    ASSUME IInv, NEW w \in Writers, Edit(w) \/ WriterStep(w)
    PROVE  IInv'
<1>0. /\ TypeOK /\ VersionsSeen /\ BodiesRead /\ OldBodies
      /\ content \in Nat /\ version \in Nat
      /\ cache \in [Keys -> Nat \cup {None}]
      /\ writer \in [Writers -> WriterSteps]
      /\ phone \in [shows : Nat, holds : Nat \cup {None}]
      /\ \A s \in Requests : request[s].read["area"].val \in Nat \cup {None}
      /\ slipped \in BOOLEAN
  BY DEF IInv, TypeOK, RequestTypes, Reads
<1>1. CASE Edit(w)
  <2>1. /\ content' = content + 1
        /\ writer' = [writer EXCEPT ![w] = "edited"]
        /\ UNCHANGED <<version, cache, request, slipped, phone>>
    BY <1>1 DEF Edit
  <2>2. Unbusted' /\ Uncounted'
    BY <2>1, <1>0 DEF Unbusted, Uncounted
  <2>3. TypeOK'
    BY <2>1, <1>0 DEF TypeOK, WriterSteps
  <2>4. VersionsSeen' /\ BodiesRead'
    BY <2>1, <1>0 DEF VersionsSeen, BodiesRead
  <2>5. OldBodies'
    BY <2>2 DEF OldBodies
  <2>6. QED
    BY <2>3, <2>4, <2>5 DEF IInv
<1>2. CASE DropSettings(w)
  <2>1. /\ cache' = [cache EXCEPT !["body"] = None]
        /\ writer[w] = "edited"
        /\ writer' = [writer EXCEPT ![w] = "dropped"]
        /\ UNCHANGED <<content, version, request, slipped, phone>>
    BY <1>2 DEF DropSettings
  <2>2. Unbusted' /\ Uncounted'
    BY <2>1, <1>0 DEF Unbusted, Uncounted
  <2>3. /\ cache' \in [Keys -> Nat \cup {None}]
        /\ cache'["area"] = cache["area"]
    BY <2>1, <1>0, EntryDropped
  <2>4. TypeOK'
    BY <2>1, <2>3, <1>0 DEF TypeOK, WriterSteps
  <2>5. VersionsSeen' /\ BodiesRead'
    BY <2>1, <2>3, <1>0 DEF VersionsSeen, BodiesRead
  <2>6. OldBodies'
    BY <2>2 DEF OldBodies
  <2>7. QED
    BY <2>4, <2>5, <2>6 DEF IInv
<1>3. CASE Bust(w)
  <2>1. /\ cache' = [cache EXCEPT !["body"] = None]
        /\ writer' = [writer EXCEPT ![w] = "bump"]
        /\ slipped' = (slipped \/ Straddled)
        /\ UNCHANGED <<content, version, request, phone>>
    BY <1>3 DEF Bust
  <2>2. Uncounted'
    BY <2>1, <1>0 DEF Uncounted
  <2>3. /\ cache' \in [Keys -> Nat \cup {None}]
        /\ cache'["area"] = cache["area"]
        /\ cache'["body"] = None
    BY <2>1, <1>0, EntryDropped
  <2>4. slipped' \in BOOLEAN
    BY <2>1, <1>0 DEF Straddled
  <2>5. TypeOK'
    BY <2>1, <2>3, <2>4, <1>0 DEF TypeOK, WriterSteps
  <2>6. VersionsSeen' /\ BodiesRead'
    BY <2>1, <2>3, <1>0 DEF VersionsSeen, BodiesRead
  <2>7. ~slipped' => ~Straddled'
    BY <2>1 DEF Straddled
  <2>8. OldBodies'
    BY <2>2, <2>3, <2>7 DEF OldBodies
  <2>9. QED
    BY <2>5, <2>6, <2>8 DEF IInv
<1>4. CASE BumpVersion(w)
  <2>1. /\ writer[w] = "bump"
        /\ version' = version + 1
        /\ writer' = [writer EXCEPT ![w] = "bumped"]
        /\ UNCHANGED <<content, cache, request, slipped, phone>>
    BY <1>4 DEF BumpVersion
  <2>2. TypeOK'
    BY <2>1, <1>0 DEF TypeOK, WriterSteps
  <2>3. VersionsSeen' /\ BodiesRead'
    <3>1. cache["area"] \in Nat \cup {None} /\ phone.holds \in Nat \cup {None}
      BY <1>0
    <3>2. QED
      BY <2>1, <3>1, <1>0 DEF VersionsSeen, BodiesRead
  <2>4. phone'.holds # version'
    BY <2>1, <1>0 DEF VersionsSeen
  <2>5. Unbusted => Unbusted'
    BY <2>1, <1>0 DEF Unbusted
  <2>6. Straddled' <=> Straddled
    BY <2>1 DEF Straddled
  <2>7. OldBodies'
    BY <2>1, <2>4, <2>5, <2>6, <1>0 DEF OldBodies
  <2>8. QED
    BY <2>2, <2>3, <2>7 DEF IInv
<1>5. CASE DropAreas(w)
  <2>1. /\ writer[w] = "bumped"
        /\ cache' = [cache EXCEPT !["area"] = None]
        /\ writer' = [writer EXCEPT ![w] = "idle"]
        /\ UNCHANGED <<content, version, request, slipped, phone>>
    BY <1>5 DEF DropAreas
  <2>2. /\ cache' \in [Keys -> Nat \cup {None}]
        /\ cache'["area"] = None
        /\ cache'["body"] = cache["body"]
    BY <2>1, <1>0, EntryDropped
  <2>3. TypeOK'
    BY <2>1, <2>2, <1>0 DEF TypeOK, WriterSteps
  <2>4. VersionsSeen' /\ BodiesRead'
    BY <2>1, <2>2, <1>0 DEF VersionsSeen, BodiesRead
  <2>5. (Unbusted => Unbusted') /\ (Uncounted => Uncounted')
    BY <2>1, <1>0 DEF Unbusted, Uncounted
  <2>6. Straddled' <=> Straddled
    BY <2>1 DEF Straddled
  <2>7. OldBodies'
    BY <2>1, <2>2, <2>5, <2>6, <1>0 DEF OldBodies
  <2>8. QED
    BY <2>3, <2>4, <2>7 DEF IInv
<1>6. CASE Throws(w)
  <2>1. /\ writer' = [writer EXCEPT ![w] = "idle"]
        /\ slipped'
        /\ slipped' \in BOOLEAN
        /\ UNCHANGED <<content, version, cache, request, phone>>
    BY <1>6 DEF Throws
  <2>2. TypeOK'
    BY <2>1, <1>0 DEF TypeOK, WriterSteps
  <2>3. VersionsSeen' /\ BodiesRead' /\ OldBodies'
    BY <2>1, <1>0 DEF VersionsSeen, BodiesRead, OldBodies
  <2>4. QED
    BY <2>2, <2>3 DEF IInv
<1>7. QED
  BY <1>1, <1>2, <1>3, <1>4, <1>5, <1>6 DEF WriterStep

\* An entry that expires keeps the invariant.
LEMMA ExpireOK ==
    ASSUME IInv, NEW k \in Keys, Expire(k)
    PROVE  IInv'
<1>0. /\ TypeOK /\ VersionsSeen /\ BodiesRead /\ OldBodies
      /\ cache \in [Keys -> Nat \cup {None}] /\ version \in Nat
  BY DEF IInv, TypeOK
<1>1. /\ cache' = [cache EXCEPT ![k] = None]
      /\ UNCHANGED <<content, version, writer, request, slipped, phone>>
  BY DEF Expire
<1>2. /\ cache' \in [Keys -> Nat \cup {None}]
      /\ \A j \in Keys : cache'[j] \in {None, cache[j]}
  BY <1>0, <1>1
<1>3. TypeOK'
  BY <1>0, <1>1, <1>2 DEF TypeOK
<1>4. VersionsSeen' /\ BodiesRead'
  BY <1>0, <1>1, <1>2 DEF VersionsSeen, BodiesRead
<1>5. OldBodies'
  BY <1>0, <1>1, <1>2 DEF OldBodies, Straddled, Unbusted, Uncounted
<1>6. QED
  BY <1>3, <1>4, <1>5 DEF IInv

\* The invariant holds when the process starts.
LEMMA InitOK == Init => IInv
<1> SUFFICES ASSUME Init PROVE IInv
  OBVIOUS
<1>1. /\ request = [r \in Requests |-> IdleRequest]
      /\ IdleRequest \in RequestTypes
      /\ \A r \in Requests : /\ request[r].read["area"].val = None
                             /\ request[r].read["body"] = [at |-> "unread", val |-> None]
  BY IdleType DEF Init
<1>2. TypeOK
  BY <1>1 DEF Init, TypeOK, WriterSteps
<1>3. VersionsSeen /\ BodiesRead
  BY <1>1 DEF Init, VersionsSeen, BodiesRead
<1>4. OldBodies
  BY <1>1 DEF Init, OldBodies, Straddled
<1>5. QED
  BY <1>2, <1>3, <1>4 DEF IInv

\* Every step keeps the invariant.
LEMMA StepOK == IInv /\ [Next]_vars => IInv'
<1> SUFFICES ASSUME IInv, [Next]_vars PROVE IInv'
  OBVIOUS
<1>1. ASSUME NEW w \in Writers, Edit(w) \/ WriterStep(w) PROVE IInv'
  BY <1>1, WriterStepOK
<1>2. ASSUME NEW r \in Requests,
             SyncAreaInfo(r) \/ LoadHomeData(r) \/ RefreshSilently(r) \/ RequestStep(r)
      PROVE  IInv'
  <2>1. RequestMoves(r)
    BY <1>2 DEF RequestStep, RequestMoves
  <2>2. QED
    BY <2>1, MoveStep
<1>3. ASSUME NEW k \in Keys, Expire(k) PROVE IInv'
  BY <1>3, ExpireOK
<1>4. CASE UNCHANGED vars
  BY <1>4 DEF vars, IInv, TypeOK, VersionsSeen, BodiesRead, OldBodies,
              Straddled, Unbusted, Uncounted
<1>5. QED
  BY <1>1, <1>2, <1>3, <1>4 DEF Next

\* The variables keep their types.
THEOREM TypeCorrect == Spec => []TypeOK
<1>1. Spec => []IInv
  BY InitOK, StepOK, PTL DEF Spec
<1>2. IInv => TypeOK
  BY DEF IInv
<1>3. QED
  BY <1>1, <1>2, PTL

\* Outside the three cases named there, a phone whose tag is confirmed shows
\* the last edit: for any number of handlers, GETs and edits.
THEOREM ConditionalGetIsFresh == Spec => []ConfirmedIsFresh
<1>1. Spec => []IInv
  BY InitOK, StepOK, PTL DEF Spec
<1>2. IInv => ConfirmedIsFresh
  BY DEF IInv, OldBodies, ConfirmedIsFresh
<1>3. QED
  BY <1>1, <1>2, PTL
=============================================================================
