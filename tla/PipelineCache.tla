--------------------------- MODULE PipelineCache ----------------------------
(***************************************************************************)
(* GET /pipeline from the browser to the caches of a load and back: the    *)
(* two caches of a Snapshot and their lock (api/pipeline_source.py),       *)
(* get_pipeline (api/routes_pipeline.py), and the browser's own cache by   *)
(* hold period with its ETags (web/js/api.js).  Reloads fall anywhere      *)
(* between the steps.                                                      *)
(*                                                                         *)
(* A load is its content: the pipeline hash with the assumption set and    *)
(* the engine, which the ETag covers too.  Two loads may have the same.    *)
(***************************************************************************)
EXTENDS Integers, Sequences, SequencesExt

CONSTANTS
    Requests,       \* calls of getPipeline that may be outstanding at once
    Holds,          \* hold periods
    LoadContents,   \* what a load may contain
    CacheEntries,   \* CACHE_ENTRIES
    MaxLoads,       \* bound: the loads of one server
    Nothing         \* no entry, no tag

ASSUME CacheConstants ==
    /\ CacheEntries \in Nat \ {0} /\ MaxLoads \in Nat \ {0}
    /\ Nothing \notin Holds

VARIABLES
    loads,      \* every load so far, with its caches; the last is in force
    request,    \* call -> where it stands, in the browser and on the server
    pipelineCache  \* hold -> the payload last received, or Nothing

traffic == <<loads, request, pipelineCache>>

\* project_returns is a pure function of the load and the hold, and its result
\* names them here; a payload holds its own and those it was built from.
ReturnsOf(content, h) == [content |-> content, hold |-> h]
Payload(content, h, returns) == [content |-> content, hold |-> h, returns |-> returns]

\* pipeline_etag.
Tag(payload) == <<payload.content, payload.hold>>

\* A cache lists its entries from the least to the most recently used.
FreshLoad(content) == [content |-> content, returns |-> <<>>, rendered |-> <<>>]

At(place) == [at |-> place, hold |-> Nothing, kept |-> Nothing, since |-> 0,
              load |-> 0, returns |-> Nothing, payload |-> Nothing]

CacheInit ==
    /\ \E c \in LoadContents : loads = <<FreshLoad(c)>>
    /\ request = [q \in Requests |-> At("idle")]
    /\ pipelineCache = [h \in Holds |-> Nothing]

-----------------------------------------------------------------------------
(* An OrderedDict under the lock.                                          *)

Keys(cache) == {cache[i].hold : i \in DOMAIN cache}
PlaceOf(cache, h) == CHOOSE i \in DOMAIN cache : cache[i].hold = h
EntryAt(cache, h) == cache[PlaceOf(cache, h)]

\* _touch.
Touched(cache, h) ==
    Append(RemoveAt(cache, PlaceOf(cache, h)), EntryAt(cache, h))

\* _trim.
TrimmedCache(cache) ==
    IF Len(cache) <= CacheEntries THEN cache
    ELSE SubSeq(cache, Len(cache) - CacheEntries + 1, Len(cache))

\* An assignment leaves a key that is there in its place.
Kept(cache, h, value) ==
    IF h \in Keys(cache)
    THEN [i \in DOMAIN cache |-> IF cache[i].hold = h
                                 THEN [hold |-> h, value |-> value] ELSE cache[i]]
    ELSE TrimmedCache(Append(cache, [hold |-> h, value |-> value]))

-----------------------------------------------------------------------------
(* The browser asks.                                                       *)

\* pipelineBody: the cached tag goes with the request, and its payload is the
\* answer to a 304.
Ask(q, h) ==
    /\ request[q].at = "idle"
    /\ request' = [request EXCEPT ![q] = [At("sent") EXCEPT !.hold = h,
                      !.kept = pipelineCache[h], !.since = Len(loads)]]
    /\ UNCHANGED <<loads, pipelineCache>>

\* reloadPipeline forgets every payload before it posts.
Forget ==
    /\ pipelineCache' = [h \in Holds |-> Nothing]
    /\ UNCHANGED <<loads, request>>

-----------------------------------------------------------------------------
(* The server answers.                                                     *)

\* Mutant: the caches of the load before stay.
ReloadKeepingCaches ==
    /\ Len(loads) < MaxLoads
    /\ \E c \in LoadContents :
          loads' = Append(loads, [Last(loads) EXCEPT !.content = c])
    /\ UNCHANGED <<request, pipelineCache>>

\* PipelineSource.reload.
Reload ==
    /\ Len(loads) < MaxLoads
    /\ \E c \in LoadContents : loads' = Append(loads, FreshLoad(c))
    /\ UNCHANGED <<request, pipelineCache>>

\* current(), once.
Take(q) ==
    /\ request[q].at = "sent"
    /\ request' = [request EXCEPT ![q].at = "taken", ![q].load = Len(loads)]
    /\ UNCHANGED <<loads, pipelineCache>>

\* rendered: a hit, or a payload to build.
LookUpRendered(q) ==
    LET n == request[q].load
        h == request[q].hold
        cache == loads[n].rendered
    IN  /\ request[q].at = "taken"
        /\ \/ /\ h \in Keys(cache)
              /\ loads' = [loads EXCEPT ![n].rendered = Touched(cache, h)]
              /\ request' = [request EXCEPT ![q].at = "rendered",
                                ![q].payload = EntryAt(cache, h).value]
           \/ /\ h \notin Keys(cache)
              /\ request' = [request EXCEPT ![q].at = "building"]
              /\ UNCHANGED loads
        /\ UNCHANGED pipelineCache

\* returns: a hit, or returns to compute.
LookUpReturns(q) ==
    LET n == request[q].load
        h == request[q].hold
        cache == loads[n].returns
    IN  /\ request[q].at = "building"
        /\ \/ /\ h \in Keys(cache)
              /\ loads' = [loads EXCEPT ![n].returns = Touched(cache, h)]
              /\ request' = [request EXCEPT ![q].at = "built",
                                ![q].returns = EntryAt(cache, h).value]
           \/ /\ h \notin Keys(cache)
              /\ request' = [request EXCEPT ![q].at = "computing"]
              /\ UNCHANGED loads
        /\ UNCHANGED pipelineCache

\* Computed outside the lock, and kept under it.
KeepReturns(q) ==
    LET n == request[q].load
        h == request[q].hold
        computed == ReturnsOf(loads[n].content, h)
    IN  /\ request[q].at = "computing"
        /\ loads' = [loads EXCEPT ![n].returns = Kept(@, h, computed)]
        /\ request' = [request EXCEPT ![q].at = "built", ![q].returns = computed]
        /\ UNCHANGED pipelineCache

\* _render, and rendered again.
KeepRendered(q) ==
    LET n == request[q].load
        h == request[q].hold
        built == Payload(loads[n].content, h, request[q].returns)
    IN  /\ request[q].at = "built"
        /\ loads' = [loads EXCEPT ![n].rendered = Kept(@, h, built)]
        /\ request' = [request EXCEPT ![q].at = "rendered", ![q].payload = built]
        /\ UNCHANGED pipelineCache

\* _matches: the tag that was sent is that of the payload.
NotModified(q) ==
    request[q].kept # Nothing /\ Tag(request[q].kept) = Tag(request[q].payload)

\* The answer reaches the browser: a 304 has no body.
Resolve(q) ==
    /\ request[q].at = "rendered"
    /\ \/ /\ NotModified(q)
          /\ request' = [request EXCEPT ![q].at = "resolved",
                                ![q].payload = request[q].kept]
          /\ UNCHANGED pipelineCache
       \/ /\ ~NotModified(q)
          /\ pipelineCache' = [pipelineCache EXCEPT ![request[q].hold] = request[q].payload]
          /\ request' = [request EXCEPT ![q].at = "resolved"]
    /\ UNCHANGED loads

\* The caller has it.
Return(q) ==
    /\ request[q].at = "resolved"
    /\ request' = [request EXCEPT ![q] = At("idle")]
    /\ UNCHANGED <<loads, pipelineCache>>

CacheNext ==
    \/ Reload \/ Forget
    \/ \E q \in Requests :
          \/ \E h \in Holds : Ask(q, h)
          \/ Take(q) \/ LookUpRendered(q) \/ LookUpReturns(q)
          \/ KeepReturns(q) \/ KeepRendered(q) \/ Resolve(q) \/ Return(q)

CacheSpec == CacheInit /\ [][CacheNext]_traffic

-----------------------------------------------------------------------------
(* Properties.                                                             *)

\* What a caller of getPipeline is given, body or 304, is the pipeline of a
\* load that was in force between its question and the answer, at the hold
\* period it asked for and with the returns of both, whichever answers
\* overtook it (api.js, pipelineBody: "the four-part validator is what makes
\* that safe").
AnswersAreOfTheAskedPipeline ==
    \A q \in Requests : request[q].at = "resolved" =>
        LET payload == request[q].payload
        IN  /\ payload.hold = request[q].hold
            /\ payload.returns = ReturnsOf(payload.content, request[q].hold)
            /\ \E n \in request[q].since .. Len(loads) :
                  loads[n].content = payload.content
=============================================================================
