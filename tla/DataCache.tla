----------------------------- MODULE DataCache -----------------------------
(***************************************************************************)
(* The hooks useApi and useApiPage and the response cache behind them:     *)
(* frontend/src/lib/use-api.ts.                                            *)
(*                                                                         *)
(* A view is one use of the hook by a mounted component.  What an endpoint *)
(* answers is a version of its data, which grows when anyone changes it; a *)
(* key is an endpoint with its parameters, for one access token.           *)
(***************************************************************************)
EXTENDS Integers, Sequences

CONSTANTS
  Views,
  Keys,
  MaxEntries,   \* CACHE_MAX_ENTRIES, 100 in the code
  None

VARIABLES
  server,     \* the version an endpoint would answer with
  cache,      \* the entries of CACHE, in the order of a Map
  view,       \* what each view asks for and shows
  fetches,    \* its requests that have not been answered or aborted
  changed,    \* history: the version a page knew of when it invalidated a key
  late        \* history: keys invalidated while an answer was under way

cacheVars == <<server, cache, view, fetches, changed, late>>

Unmounted == [key |-> None, reloaded |-> FALSE, of |-> None, shown |-> -1]
Unread == -1
Fetch(v, k, read) == [view |-> v, key |-> k, read |-> read]
FetchesOf(v) == {f \in fetches : f.view = v}

CacheInit ==
  /\ server = [k \in Keys |-> 0]
  /\ cache = <<>>
  /\ view = [v \in Views |-> Unmounted]
  /\ fetches = {}
  /\ changed = [k \in Keys |-> 0]
  /\ late = {}

-----------------------------------------------------------------------------
(* CACHE, a Map from keys to entries that live for half a minute, kept in  *)
(* the order of their insertion; and those entries at some of its places.  *)
Entry(k, version) == [key |-> k, version |-> version, live |-> TRUE]
Kept(c, places) ==
  LET upTo[n \in 0 .. Len(c)] ==
        IF n = 0 THEN <<>>
        ELSE IF n \in places THEN Append(upTo[n - 1], c[n]) ELSE upTo[n - 1]
  IN upTo[Len(c)]
Without(c, k) == Kept(c, {i \in DOMAIN c : c[i].key # k})
Hits(k) == {i \in DOMAIN cache : cache[i].key = k /\ cache[i].live}

(* cacheGet() drops an entry that has expired.                             *)
AfterGet(k) == Kept(cache, {i \in DOMAIN cache : cache[i].key # k \/ cache[i].live})

(* cacheSet(): at the limit, drop what has expired, and if that is not     *)
(* enough the oldest; a key that is there keeps its place.                 *)
RoomNotMade(c) == c                    \* a mutant: only what has expired goes
RoomMade(c) == IF Len(c) >= MaxEntries THEN Tail(c) ELSE c
Trimmed(c) ==
  IF Len(c) < MaxEntries THEN c ELSE RoomMade(Kept(c, {i \in DOMAIN c : c[i].live}))

Put(c, k, version) ==
  IF \E i \in DOMAIN c : c[i].key = k
  THEN [i \in DOMAIN c |-> IF c[i].key = k THEN Entry(k, version) ELSE c[i]]
  ELSE Append(c, Entry(k, version))

-----------------------------------------------------------------------------
(***************************************************************************)
(* The effect, run when a view is mounted, asks for something else or is   *)
(* reloaded: what went before is aborted, and unless it is a reload the    *)
(* cache is asked first.  Until there is an answer the old one stays.      *)
(***************************************************************************)
CancelledNot(v) == fetches             \* a mutant: no cleanup
Cancelled(v) == fetches \ FetchesOf(v)

Runs(v, k, reloaded) ==
  IF ~reloaded /\ Hits(k) # {}
  THEN /\ view' = [view EXCEPT ![v] =
            [key |-> k, reloaded |-> FALSE, of |-> k,
             shown |-> cache[CHOOSE i \in Hits(k) : TRUE].version]]
       /\ fetches' = Cancelled(v)
       /\ UNCHANGED cache
  ELSE /\ view' = [view EXCEPT ![v].key = k, ![v].reloaded = reloaded]
       /\ fetches' = Cancelled(v) \cup {Fetch(v, k, Unread)}
       /\ cache' = IF reloaded THEN cache ELSE AfterGet(k)

Mount(v, k) ==
  /\ view[v].key = None
  /\ Runs(v, k, FALSE)
  /\ UNCHANGED <<server, changed, late>>

AskFor(v, k) ==
  /\ view[v].key \notin {None, k}
  /\ Runs(v, k, view[v].reloaded)
  /\ UNCHANGED <<server, changed, late>>

Reload(v) ==
  /\ view[v].key # None
  /\ Runs(v, view[v].key, TRUE)
  /\ UNCHANGED <<server, changed, late>>

Unmount(v) ==
  /\ view[v].key # None
  /\ view' = [view EXCEPT ![v] = Unmounted]
  /\ fetches' = Cancelled(v)
  /\ UNCHANGED <<server, cache, changed, late>>

-----------------------------------------------------------------------------
(* The API answers a request, the answer arrives or does not.              *)
Serve(f) ==
  /\ f.read = Unread
  /\ fetches' = (fetches \ {f}) \cup {Fetch(f.view, f.key, server[f.key])}
  /\ UNCHANGED <<server, cache, view, changed, late>>

Answer(f) ==
  /\ f.read # Unread
  /\ fetches' = fetches \ {f}
  /\ view' = [view EXCEPT ![f.view].of = f.key, ![f.view].shown = f.read]
  /\ cache' = Put(Trimmed(cache), f.key, f.read)
  /\ UNCHANGED <<server, changed, late>>

Fail(f) ==
  /\ fetches' = fetches \ {f}
  /\ UNCHANGED <<server, cache, view, changed, late>>

(* Somebody changes the data; a page that did so invalidates the keys it   *)
(* affects (here one); time passes.                                        *)
Change(k) ==
  /\ server' = [server EXCEPT ![k] = @ + 1]
  /\ UNCHANGED <<cache, view, fetches, changed, late>>

InvalidatedNot(k) == cache             \* a mutant: the prefix matches nothing
Invalidated(k) == Without(cache, k)

Invalidate(k) ==
  /\ cache' = Invalidated(k)
  /\ changed' = [changed EXCEPT ![k] = server[k]]
  /\ late' = IF \E f \in fetches : f.key = k /\ f.read # Unread
             THEN late \cup {k} ELSE late \ {k}
  /\ UNCHANGED <<server, view, fetches>>

Expire(i) ==
  /\ i \in DOMAIN cache /\ cache[i].live
  /\ cache' = [cache EXCEPT ![i].live = FALSE]
  /\ UNCHANGED <<server, view, fetches, changed, late>>

CacheNext ==
  \/ \E v \in Views : Reload(v) \/ Unmount(v) \/ \E k \in Keys : Mount(v, k) \/ AskFor(v, k)
  \/ \E f \in fetches : Serve(f) \/ Answer(f) \/ Fail(f)
  \/ \E k \in Keys : Change(k) \/ Invalidate(k)
  \/ \E i \in 1 .. MaxEntries : Expire(i)

CacheSpec == CacheInit /\ [][CacheNext]_cacheVars

-----------------------------------------------------------------------------
(***************************************************************************)
(* Properties                                                              *)
(***************************************************************************)

(* The cache never grows past its limit and has one entry per key; a view  *)
(* waits for at most one answer, and for one to what it asks for.          *)
WithinLimits ==
  /\ Len(cache) <= MaxEntries
  /\ \A i, j \in DOMAIN cache : i # j => cache[i].key # cache[j].key
  /\ \A f, g \in fetches : f.view = g.view => f = g
  /\ \A f \in fetches : f.key = view[f.view].key

(* While a view goes on asking for the endpoint whose data it shows, what  *)
(* it shows never gets older, in whatever order the answers to its         *)
(* requests come.                                                          *)
NeverGoesBack ==
  [][\A v \in Views :
       view[v].of = view[v].key /\ view'[v].key = view[v].key
         => view'[v].shown >= view[v].shown]_cacheVars

(* After a page has invalidated a key no view finds older data in the      *)
(* cache, unless an answer read before the change was still under way.     *)
FreshAfterChange ==
  \A i \in DOMAIN cache :
    cache[i].version >= changed[cache[i].key] \/ cache[i].key \in late

=============================================================================
