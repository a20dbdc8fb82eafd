----------------------------- MODULE PageCache ------------------------------
(* Pages that are put together from other cached pages, followed along one    *)
(* path from a page down to one of its parts and their parts.  Two readers    *)
(* ask for queries A and B that differ in one parameter; an incident (a       *)
(* change of the data, or an outage of the database) ends at some time, and   *)
(* payloads loaded before that show it.  The entries followed are those that  *)
(* query A is answered from.                                                  *)
EXTENDS RoutePages, CacheEntry

CONSTANT Params  \* parameters in which A and B may differ

VARIABLES
    path,        \* the pages, each a part of the one before
    differs,     \* the parameter in which A and B differ
    incident,    \* "change" or "outage"
    since,       \* ticks since the incident ended, Ongoing before that
    entry        \* for each page of the path, the entry under A's key, or None

vars == <<path, differs, incident, since, entry>>

-----------------------------------------------------------------------------
Ongoing == -1

PartOf(page, part) == CHOOSE p \in Pages[page].parts : p.page = part
HasPart(page, part) == \E p \in Pages[page].parts : p.page = part

Single == {<<n>> : n \in DOMAIN Pages}
Longer(ps) ==
    {p \in {Append(q, part.page) : q \in ps, part \in UNION {Pages[n].parts : n \in DOMAIN Pages}} :
        HasPart(p[Len(p) - 1], p[Len(p)])}

(* The parts reach three levels down (page data, overview, champions          *)
(* overview, champion statistics).                                            *)
Paths ==
    LET two == Longer(Single)
        three == Longer(two)
    IN  {p \in Single \cup two \cup three \cup Longer(three) : Pages[p[Len(p)]].parts = {}}

Levels == DOMAIN path
Lifetime == FreshTtl + StaleTtl

(* How long after its end an incident can still be seen at a level. *)
Bound(i) == (Len(path) - i + 1) * Lifetime
MaxSince == Len(path) * Lifetime + 1

Stored(for, shows) == [of |-> for, shows |-> shows, ttl |-> Lifetime]
Stale(e) == e.ttl <= StaleTtl

TypeOK ==
    /\ path \in Paths /\ differs \in Params /\ incident \in {"change", "outage"}
    /\ since \in Ongoing .. MaxSince
    /\ entry \in [Levels -> {None} \cup [of : {"A", "B", "mixed"}, shows : BOOLEAN, ttl : 1 .. Lifetime]]

(* Only parameters that some page of the path reads, or that none does. *)
Init ==
    /\ path \in Paths
    /\ differs \in {p \in Params : p \in Tracking \/ p \in Pages[path[1]].loads}
    /\ incident \in {"change", "outage"}
    /\ since = Ongoing
    /\ entry = [i \in Levels |-> None]

-----------------------------------------------------------------------------
(* The query that a page filled for the given query asks its part; without    *)
(* the parameter when it does not pass it on.                                 *)
PartQuery(i, for) ==
    IF differs \in PartOf(path[i], path[i + 1]).passes THEN for ELSE "without"

(* Other queries are answered from A's entry when the key does not hold the   *)
(* parameter.                                                                 *)
SameKey(i, for) == for = "A" \/ ~KeyHolds(path[i], differs)

(* A page is about one query, unless a part that reads the parameter, too,    *)
(* was asked for another.                                                     *)
About(i, for) ==
    IF /\ i < Len(path)
       /\ PartQuery(i, for) # for
       /\ differs \in Pages[path[i]].loads \cap Pages[path[i + 1]].loads
    THEN "mixed" ELSE for

(* What the payload shows of the incident when the part answers: the data of  *)
(* its own statement are as old as the load, those of the part as the part.   *)
(* A part under another key than A's is not followed: what it shows is        *)
(* bounded as A's is.                                                         *)
PartShows(i, for) ==
    IF i = Len(path) THEN {FALSE}
    ELSE IF SameKey(i + 1, PartQuery(i, for))
         THEN IF entry[i + 1] = None THEN {} ELSE {entry[i + 1].shows}
         ELSE {FALSE} \cup (IF since < Bound(i + 1) THEN {TRUE} ELSE {})

(* The loader of a page: a failed statement of its own fails it; a part that  *)
(* fails leaves a hole in a bundle and fails any other page.  A part that is  *)
(* not in the cache is loaded first.                                          *)
Loads(i, for) ==
    \/ /\ since = Ongoing /\ incident = "outage"
       /\ i < Len(path) /\ Pages[path[i]].tolerant
       /\ entry' = [entry EXCEPT ![i] = Stored(About(i, for), TRUE)]
    \/ \E shows \in PartShows(i, for) :
          entry' = [entry EXCEPT ![i] = Stored(About(i, for),
                       shows \/ (since = Ongoing /\ incident = "change"))]

(* A reader asks for a page that is not in the cache. *)
ColdMiss(i, for) ==
    /\ entry[i] = None
    /\ SameKey(i, for)
    /\ Loads(i, for)
    /\ UNCHANGED <<path, differs, incident, since>>

(* A refresh that stores what the cache had. *)
RefreshStoresCached(i, for) ==
    /\ entry[i] # None /\ Stale(entry[i]) /\ SameKey(i, for)
    /\ entry' = [entry EXCEPT ![i].ttl = Lifetime]
    /\ UNCHANGED <<path, differs, incident, since>>

(* A reader (or the cache warmer) finds a stale page, which is loaded again   *)
(* in the background.                                                         *)
Refresh(i, for) ==
    /\ entry[i] # None /\ Stale(entry[i])
    /\ SameKey(i, for)
    /\ Loads(i, for)
    /\ UNCHANGED <<path, differs, incident, since>>

(* The change is committed, the outage is over. *)
IncidentEnds ==
    /\ since = Ongoing
    /\ since' = 0
    /\ UNCHANGED <<path, differs, incident, entry>>

Tick ==
    /\ since' = IF since \in {Ongoing, MaxSince} THEN since ELSE since + 1
    /\ entry' = [i \in Levels |-> Expire(entry[i])]
    /\ UNCHANGED <<path, differs, incident>>

Next ==
    \/ \E i \in Levels, for \in {"A", "B"} : ColdMiss(i, for) \/ Refresh(i, for)
    \/ IncidentEnds \/ Tick

Spec == Init /\ [][Next]_vars

-----------------------------------------------------------------------------
(* A reader is answered for its own query: an entry that another query has    *)
(* filled under the same key differs in nothing its loader reads.             *)
ServedAsAsked ==
    \A i \in Levels : entry[i] # None /\ entry[i].of = "B" => differs \notin Pages[path[i]].loads

(* A page is about one query throughout: every part of a bundle that knows    *)
(* the parameter is asked for the value the bundle was asked for.             *)
OneScope == \A i \in Levels : entry[i] # None => entry[i].of # "mixed"

(* Old data and the holes of an outage are gone from a page when it and its   *)
(* parts, one below the other, have outlived their lifetimes; refreshing a    *)
(* stale page from a stale part does not keep them alive.                     *)
IncidentsPass ==
    \A i \in Levels : entry[i] # None /\ entry[i].shows => since + entry[i].ttl <= Bound(i)

(* Whoever reads a cached page gets a page about what was asked for, and      *)
(* about that alone.                                                          *)
AnswersFit == TypeOK /\ ServedAsAsked /\ OneScope
=============================================================================
