------------------------------ MODULE HttpProofs ------------------------------
(* Proofs about the read path of the HTTP API: PageCache (for all lifetimes   *)
(* and parameters, over the whole table of pages), RouteCache (for any number *)
(* of readers, processes and faults and for all lifetimes) and Admission (for *)
(* any number of requests and all limits).  No theorem is about two of them.  *)
EXTENDS PageCache, RouteCache, Admission, FiniteSetTheorems, TLAPS

-----------------------------------------------------------------------------
(* PageCache *)

PageEntries == [of : {"A", "B", "mixed"}, shows : BOOLEAN, ttl : 1 .. Lifetime]

PageTypes ==
    /\ path \in Paths /\ differs \in Params /\ incident \in {"change", "outage"}
    /\ since \in Ongoing .. MaxSince
    /\ entry \in [Levels -> {None} \cup PageEntries]

(* Both invariants of the run are inductive together.                         *)
PageInv == PageTypes /\ ServedAsAsked /\ OneScope /\ IncidentsPass

-----------------------------------------------------------------------------
(* Keys and parts.  What the table of pages must be for no reader to get an   *)
(* answer to another reader's question.                                       *)

(* Every parameter that the loader reads is in the key.                       *)
KeyFits(page) ==
    \A param \in page.loads : param \in page.key \/ (page.byUrl /\ param \notin Tracking)

(* A part is a page of the table, and is asked for every parameter that both  *)
(* it and the page read.                                                      *)
PartFits(page, part) ==
    /\ part.page \in DOMAIN Pages
    /\ page.loads \cap Pages[part.page].loads \subseteq part.passes
PartsFit(page) == \A part \in page.parts : PartFits(page, part)

LEMMA UrlFits ==
    ASSUME NEW loads, "utm_source" \notin loads
    PROVE  /\ KeyFits(UrlKeyed(loads)) /\ UrlKeyed(loads).parts = {} /\ UrlKeyed(loads).loads = loads
           /\ KeyFits(QueryKeyed(loads)) /\ QueryKeyed(loads).parts = {}
BY DEF KeyFits, UrlKeyed, QueryKeyed, Tracking

LEMMA KeyedFits ==
    ASSUME NEW key, NEW loads, loads \subseteq key
    PROVE  KeyFits(Keyed(key, loads)) /\ Keyed(key, loads).parts = {} /\ Keyed(key, loads).loads = loads
BY DEF KeyFits, UrlKeyed, Keyed, Tracking

LEMMA BundleFits ==
    ASSUME NEW key, NEW loads, NEW parts
    PROVE  /\ "utm_source" \notin loads => KeyFits(Bundle(loads, parts))
           /\ Bundle(loads, parts).parts = parts /\ Bundle(loads, parts).loads = loads
           /\ loads \subseteq key => KeyFits(KeyedBundle(key, loads, parts))
           /\ KeyedBundle(key, loads, parts).parts = parts
           /\ KeyedBundle(key, loads, parts).loads = loads
BY DEF KeyFits, UrlKeyed, Bundle, Keyed, KeyedBundle, Tracking

UrlPages1 == {StatsItems, StatsQueues, StatsRegions, StatsPlatforms, StatsLoadouts, StatsTiers,
    StatsTiersSummary, StatsLeagues, StatsRankedLeaderboard, StatsTierPopulation,
    StatsChampionLeaderboard, StatsMaps}
UrlPages2 == {StatsChampionMaps, StatsMapDetail, StatsMapComparison, PerformanceMetrics,
    PerformanceByChampion, StatsSkins, StatsBrokenSkins, StatsItemDetail, HourlyMatchCounts,
    StatsTalents, ChampionTalents, StatsCards}
UrlPages3 == {ChampionCards, CardDetail, StatsBaselines, Presence, HourlyPresence,
    PresenceMatchIds, PresencePlayers, PresenceDetails, StatsLeaderboard, StatsTrends,
    StatsCharts, StatsChampions, StatsChampionsUnranked}
UrlPages4 == {ChampionsCatalog, ChampionDetail, ChampionTiers, PlayerSearch, AutomaticAfkDetail,
    PlayerMatches, AltAccountRelations, Parties, PrivateAccounts, Changelog, Notifications,
    OperationsStats}
QueryPages == {MatchSearch}
KeyedPages == {MatchDetail, RecentMatches, DailyPlayers, PlayersOverview, BoostedPlayers,
    AutomaticAfk, WallShooters, MasterFeeding, PerformanceDiff, ActivityBanner, ReferenceList,
    ReferenceById}

LEMMA UrlPages1Fit == \A page \in UrlPages1 : KeyFits(page) /\ page.parts = {}
BY UrlFits DEF UrlPages1, StatsItems, StatsQueues, StatsRegions, StatsPlatforms, StatsLoadouts,
       StatsTiers, StatsTiersSummary, StatsLeagues, StatsRankedLeaderboard, StatsTierPopulation,
       StatsChampionLeaderboard, StatsMaps, Tier, Paging

LEMMA UrlPages2Fit == \A page \in UrlPages2 : KeyFits(page) /\ page.parts = {}
BY UrlFits DEF UrlPages2, StatsChampionMaps, StatsMapDetail, StatsMapComparison,
       PerformanceMetrics, PerformanceByChampion, StatsSkins, StatsBrokenSkins, StatsItemDetail,
       HourlyMatchCounts, StatsTalents, ChampionTalents, StatsCards, Tier, Paging

LEMMA UrlPages3Fit == \A page \in UrlPages3 : KeyFits(page) /\ page.parts = {}
BY UrlFits DEF UrlPages3, ChampionCards, CardDetail, StatsBaselines, Presence, HourlyPresence,
       PresenceMatchIds, PresencePlayers, PresenceDetails, StatsLeaderboard, StatsTrends,
       StatsCharts, StatsChampions, StatsChampionsUnranked, Tier, Paging

LEMMA UrlPages4Fit == \A page \in UrlPages4 : KeyFits(page) /\ page.parts = {}
BY UrlFits DEF UrlPages4, ChampionsCatalog, ChampionDetail, ChampionTiers, PlayerSearch,
       AutomaticAfkDetail, PlayerMatches, AltAccountRelations, Parties, PrivateAccounts,
       Changelog, Notifications, OperationsStats, Tier, Paging

LEMMA QueryPagesFit == \A page \in QueryPages : KeyFits(page) /\ page.parts = {}
BY UrlFits DEF QueryPages, MatchSearch, Tier, Paging

LEMMA KeyedPagesFit == \A page \in KeyedPages : KeyFits(page) /\ page.parts = {}
BY KeyedFits DEF KeyedPages, MatchDetail, RecentMatches, DailyPlayers, PlayersOverview,
       BoostedPlayers, AutomaticAfk, WallShooters, MasterFeeding, PerformanceDiff,
       ActivityBanner, ReferenceList, ReferenceById, Tier, Paging

(* What the parts of the bundles read.                                        *)
LEMMA PartEntries ==
    /\ "performance_metrics" \in DOMAIN Pages /\ Pages["performance_metrics"] = PerformanceMetrics
    /\ "champions_overview" \in DOMAIN Pages /\ Pages["champions_overview"] = ChampionsOverview
    /\ "stats_items" \in DOMAIN Pages /\ Pages["stats_items"] = StatsItems
    /\ "stats_maps" \in DOMAIN Pages /\ Pages["stats_maps"] = StatsMaps
    /\ "stats_tiers" \in DOMAIN Pages /\ Pages["stats_tiers"] = StatsTiers
    /\ "stats_overview" \in DOMAIN Pages /\ Pages["stats_overview"] = StatsOverview
    /\ "stats_baselines" \in DOMAIN Pages /\ Pages["stats_baselines"] = StatsBaselines
    /\ "stats_skins" \in DOMAIN Pages /\ Pages["stats_skins"] = StatsSkins
    /\ "stats_broken_skins" \in DOMAIN Pages /\ Pages["stats_broken_skins"] = StatsBrokenSkins
    /\ "stats_champions" \in DOMAIN Pages /\ Pages["stats_champions"] = StatsChampions
    /\ "stats_champions_unranked" \in DOMAIN Pages
    /\ Pages["stats_champions_unranked"] = StatsChampionsUnranked
    /\ "champion_talents" \in DOMAIN Pages /\ Pages["champion_talents"] = ChampionTalents
    /\ "stats_champion_maps" \in DOMAIN Pages /\ Pages["stats_champion_maps"] = StatsChampionMaps
    /\ "performance_by_champion" \in DOMAIN Pages /\ Pages["performance_by_champion"] = PerformanceByChampion
    /\ "champion_cards" \in DOMAIN Pages /\ Pages["champion_cards"] = ChampionCards
    /\ "daily_players" \in DOMAIN Pages /\ Pages["daily_players"] = DailyPlayers
    /\ "hourly_stats" \in DOMAIN Pages /\ Pages["hourly_stats"] = HourlyStats
BY DEF Pages

LEMMA PartLoads ==
    /\ PerformanceMetrics.loads = {"includeRoles", "metric", "role", "scope"} \cup Tier
    /\ ChampionsOverview.loads = {"scope"} \cup Tier
    /\ StatsItems.loads = {"mode", "scope", "limit", "queueId", "championId", "role"} \cup Tier
    /\ StatsMaps.loads = {"includeUnknown", "limit", "queueId", "scope"} \cup Tier
    /\ StatsTiers.loads = {"source"}
    /\ StatsOverview.loads = Tier
    /\ StatsBaselines.loads = {"queueId", "role"} \cup Tier
    /\ StatsSkins.loads = {"championId", "limit"} \cup Tier
    /\ StatsBrokenSkins.loads = {"championId"} \cup Tier
    /\ StatsChampions.loads = {"sort", "order", "limit", "scope", "queueId"} \cup Tier
    /\ ChampionTalents.loads = {"championId"} \cup Tier
    /\ StatsChampionMaps.loads = {"championId", "queueId", "scope"} \cup Tier
    /\ PerformanceByChampion.loads = {"championId", "metric", "queueId"} \cup Tier
    /\ ChampionCards.loads = {"championId", "talentId"} \cup Tier
    /\ DailyPlayers.loads = {}
    /\ HourlyStats.loads = {"includePlayers"} \cup Tier
BY UrlFits, BundleFits, KeyedFits
   DEF PerformanceMetrics, ChampionsOverview, StatsItems,
       StatsMaps, StatsTiers, StatsOverview, StatsBaselines, StatsSkins, StatsBrokenSkins,
       StatsChampions, ChampionTalents, StatsChampionMaps, PerformanceByChampion, ChampionCards,
       DailyPlayers, HourlyStats, Tier, QueryKeyed, UrlKeyed

LEMMA StatsOverviewFits == KeyFits(StatsOverview) /\ PartsFit(StatsOverview)
<1>1. KeyFits(StatsOverview)
  BY BundleFits DEF StatsOverview, Tier
<1>2. /\ StatsOverview.parts =
         {Part("performance_metrics", Tier),
          Part("champions_overview", Tier), Part("stats_items", Tier), Part("stats_maps", Tier),
          Part("stats_tiers", {})}
      /\ StatsOverview.loads = Tier
  BY BundleFits DEF StatsOverview
<1>3. PartFits(StatsOverview, Part("performance_metrics", Tier))
  BY <1>2, PartEntries, PartLoads DEF PartFits, Part, Tier
<1>4. PartFits(StatsOverview, Part("champions_overview", Tier))
  BY <1>2, PartEntries, PartLoads DEF PartFits, Part, Tier
<1>5. PartFits(StatsOverview, Part("stats_items", Tier))
  BY <1>2, PartEntries, PartLoads DEF PartFits, Part, Tier
<1>6. PartFits(StatsOverview, Part("stats_maps", Tier))
  BY <1>2, PartEntries, PartLoads DEF PartFits, Part, Tier
<1>7. PartFits(StatsOverview, Part("stats_tiers", {}))
  BY <1>2, PartEntries, PartLoads DEF PartFits, Part, Tier
<1>. QED
  BY <1>1, <1>2, <1>3, <1>4, <1>5, <1>6, <1>7 DEF PartsFit

LEMMA StatsPageDataFits == KeyFits(StatsPageData) /\ PartsFit(StatsPageData)
<1>1. KeyFits(StatsPageData)
  BY BundleFits DEF StatsPageData, Tier
<1>2. /\ StatsPageData.parts =
         {Part("stats_overview", Tier),
          Part("stats_baselines", Tier), Part("stats_skins", Tier), Part("stats_broken_skins", Tier)}
      /\ StatsPageData.loads = Tier
  BY BundleFits DEF StatsPageData
<1>3. PartFits(StatsPageData, Part("stats_overview", Tier))
  BY <1>2, PartEntries, PartLoads DEF PartFits, Part, Tier
<1>4. PartFits(StatsPageData, Part("stats_baselines", Tier))
  BY <1>2, PartEntries, PartLoads DEF PartFits, Part, Tier
<1>5. PartFits(StatsPageData, Part("stats_skins", Tier))
  BY <1>2, PartEntries, PartLoads DEF PartFits, Part, Tier
<1>6. PartFits(StatsPageData, Part("stats_broken_skins", Tier))
  BY <1>2, PartEntries, PartLoads DEF PartFits, Part, Tier
<1>. QED
  BY <1>1, <1>2, <1>3, <1>4, <1>5, <1>6 DEF PartsFit

LEMMA ChampionsOverviewFits == KeyFits(ChampionsOverview) /\ PartsFit(ChampionsOverview)
<1>1. KeyFits(ChampionsOverview)
  BY BundleFits DEF ChampionsOverview, Tier
<1>2. /\ ChampionsOverview.parts =
         {Part("stats_champions", {"scope"} \cup Tier)}
      /\ ChampionsOverview.loads = {"scope"} \cup Tier
  BY BundleFits DEF ChampionsOverview
<1>3. PartFits(ChampionsOverview, Part("stats_champions", {"scope"} \cup Tier))
  BY <1>2, PartEntries, PartLoads DEF PartFits, Part, Tier
<1>. QED
  BY <1>1, <1>2, <1>3 DEF PartsFit

LEMMA UnrankedOverviewFits ==
    KeyFits(ChampionsOverviewUnranked) /\ PartsFit(ChampionsOverviewUnranked)
<1>1. KeyFits(ChampionsOverviewUnranked)
  BY BundleFits DEF ChampionsOverviewUnranked
<1>2. /\ ChampionsOverviewUnranked.parts = {Part("stats_champions_unranked", {"scope"})}
      /\ ChampionsOverviewUnranked.loads = {"scope"}
  BY BundleFits DEF ChampionsOverviewUnranked
<1>3. PartFits(ChampionsOverviewUnranked, Part("stats_champions_unranked", {"scope"}))
  <2>1. StatsChampionsUnranked.loads = {"sort", "order", "limit", "scope", "queueId"}
    BY UrlFits DEF StatsChampionsUnranked
  <2>. QED
    BY <1>2, <2>1, PartEntries DEF PartFits, Part
<1>. QED
  BY <1>1, <1>2, <1>3 DEF PartsFit

LEMMA ChampionPageFits == KeyFits(ChampionPage) /\ PartsFit(ChampionPage)
<1>1. KeyFits(ChampionPage)
  BY BundleFits DEF ChampionPage
<1>2. /\ ChampionPage.parts =
         {Part("champion_talents", {"championId"}),
          Part("stats_items", {"championId"}), Part("stats_champion_maps", {"championId"}),
          Part("performance_metrics", {}),
          Part("performance_by_champion", {"championId"})}
      /\ ChampionPage.loads = {"championId"}
  BY BundleFits DEF ChampionPage
<1>3. PartFits(ChampionPage, Part("champion_talents", {"championId"}))
  BY <1>2, PartEntries, PartLoads DEF PartFits, Part, Tier
<1>4. PartFits(ChampionPage, Part("stats_items", {"championId"}))
  BY <1>2, PartEntries, PartLoads DEF PartFits, Part, Tier
<1>5. PartFits(ChampionPage, Part("stats_champion_maps", {"championId"}))
  BY <1>2, PartEntries, PartLoads DEF PartFits, Part, Tier
<1>6. PartFits(ChampionPage, Part("performance_metrics", {}))
  BY <1>2, PartEntries, PartLoads DEF PartFits, Part, Tier
<1>7. PartFits(ChampionPage, Part("performance_by_champion", {"championId"}))
  BY <1>2, PartEntries, PartLoads DEF PartFits, Part, Tier
<1>. QED
  BY <1>1, <1>2, <1>3, <1>4, <1>5, <1>6, <1>7 DEF PartsFit

LEMMA BoundedPageFits == KeyFits(ChampionPageBounded) /\ PartsFit(ChampionPageBounded)
<1>1. KeyFits(ChampionPageBounded)
  BY BundleFits DEF ChampionPageBounded, Tier
<1>2. /\ ChampionPageBounded.parts =
         {Part("champion_talents", {"championId"} \cup Tier),
          Part("stats_items", {"championId"} \cup Tier),
          Part("performance_metrics", Tier),
          Part("performance_by_champion", {"championId"} \cup Tier)}
      /\ ChampionPageBounded.loads = {"championId"} \cup Tier
  BY BundleFits DEF ChampionPageBounded
<1>3. PartFits(ChampionPageBounded, Part("champion_talents", {"championId"} \cup Tier))
  BY <1>2, PartEntries, PartLoads DEF PartFits, Part, Tier
<1>4. PartFits(ChampionPageBounded, Part("stats_items", {"championId"} \cup Tier))
  BY <1>2, PartEntries, PartLoads DEF PartFits, Part, Tier
<1>5. PartFits(ChampionPageBounded, Part("performance_metrics", Tier))
  BY <1>2, PartEntries, PartLoads DEF PartFits, Part, Tier
<1>6. PartFits(ChampionPageBounded, Part("performance_by_champion", {"championId"} \cup Tier))
  BY <1>2, PartEntries, PartLoads DEF PartFits, Part, Tier
<1>. QED
  BY <1>1, <1>2, <1>3, <1>4, <1>5, <1>6 DEF PartsFit

LEMMA TalentPageFits == KeyFits(TalentPage) /\ PartsFit(TalentPage)
<1>1. KeyFits(TalentPage)
  BY BundleFits DEF TalentPage, Tier
<1>2. /\ TalentPage.parts =
         {Part("champion_talents", ({"championId"} \cup Tier)),
          Part("champion_cards", {"talentId"} \cup ({"championId"} \cup Tier))}
      /\ TalentPage.loads = {"talentId"} \cup ({"championId"} \cup Tier)
  BY BundleFits DEF TalentPage
<1>3. PartFits(TalentPage, Part("champion_talents", ({"championId"} \cup Tier)))
  BY <1>2, PartEntries, PartLoads DEF PartFits, Part, Tier
<1>4. PartFits(TalentPage, Part("champion_cards", {"talentId"} \cup ({"championId"} \cup Tier)))
  BY <1>2, PartEntries, PartLoads DEF PartFits, Part, Tier
<1>. QED
  BY <1>1, <1>2, <1>3, <1>4 DEF PartsFit

LEMMA TopWinrateFits == KeyFits(TopWinrate) /\ PartsFit(TopWinrate)
<1>1. KeyFits(TopWinrate)
  BY BundleFits DEF TopWinrate, Tier
<1>2. /\ TopWinrate.parts =
         {Part("stats_champions", Tier)}
      /\ TopWinrate.loads = Tier
  BY BundleFits DEF TopWinrate
<1>3. PartFits(TopWinrate, Part("stats_champions", Tier))
  BY <1>2, PartEntries, PartLoads DEF PartFits, Part, Tier
<1>. QED
  BY <1>1, <1>2, <1>3 DEF PartsFit

LEMMA HourlyStatsFits == KeyFits(HourlyStats) /\ PartsFit(HourlyStats)
<1>1. KeyFits(HourlyStats)
  BY DEF KeyFits, HourlyStats, QueryKeyed, UrlKeyed, Tier, Tracking
<1>2. /\ HourlyStats.parts =
         {Part("daily_players", {})}
      /\ HourlyStats.loads = {"includePlayers"} \cup Tier
  BY BundleFits DEF HourlyStats, QueryKeyed, UrlKeyed
<1>3. PartFits(HourlyStats, Part("daily_players", {}))
  BY <1>2, PartEntries, PartLoads DEF PartFits, Part, Tier
<1>. QED
  BY <1>1, <1>2, <1>3 DEF PartsFit

LEMMA MatchesOverviewFits == KeyFits(MatchesOverview) /\ PartsFit(MatchesOverview)
<1>1. KeyFits(MatchesOverview)
  BY BundleFits DEF MatchesOverview, Tier
<1>2. /\ MatchesOverview.parts =
         {Part("hourly_stats", Tier)}
      /\ MatchesOverview.loads = {"view"} \cup Tier
  BY BundleFits DEF MatchesOverview
<1>3. PartFits(MatchesOverview, Part("hourly_stats", Tier))
  BY <1>2, PartEntries, PartLoads DEF PartFits, Part, Tier
<1>. QED
  BY <1>1, <1>2, <1>3 DEF PartsFit

LEMMA TableFits == \A n \in DOMAIN Pages : KeyFits(Pages[n]) /\ PartsFit(Pages[n])
<1> DEFINE bundles == {StatsOverview, StatsPageData, ChampionsOverview,
                  ChampionsOverviewUnranked, ChampionPage, ChampionPageBounded, TalentPage,
                  TopWinrate, HourlyStats, MatchesOverview}
<1>1. ASSUME NEW n \in DOMAIN Pages
      PROVE  Pages[n] \in UrlPages1 \cup UrlPages2 \cup UrlPages3 \cup UrlPages4 \cup
                   QueryPages \cup KeyedPages \cup bundles
  BY DEF Pages, UrlPages1, UrlPages2, UrlPages3, UrlPages4, QueryPages, KeyedPages
<1>2. \A page \in UrlPages1 \cup UrlPages2 \cup UrlPages3 \cup UrlPages4 \cup
                 QueryPages \cup KeyedPages :
         KeyFits(page) /\ PartsFit(page)
  BY UrlPages1Fit, UrlPages2Fit, UrlPages3Fit, UrlPages4Fit, QueryPagesFit, KeyedPagesFit
     DEF PartsFit
<1>3. \A page \in bundles : KeyFits(page) /\ PartsFit(page)
  BY StatsOverviewFits, StatsPageDataFits, ChampionsOverviewFits, UnrankedOverviewFits,
     ChampionPageFits, BoundedPageFits, TalentPageFits, TopWinrateFits, HourlyStatsFits, MatchesOverviewFits
<1>. QED
  BY <1>1, <1>2, <1>3

-----------------------------------------------------------------------------
(* Paths.  Each page of a path is a part of the page before it.               *)

Connected(ps) ==
    \A p \in ps : /\ p \in Seq(DOMAIN Pages) /\ Len(p) # 0
                  /\ \A i \in 1 .. Len(p) - 1 : HasPart(p[i], p[i + 1])

LEMMA LongerConnected ==
    ASSUME NEW ps, Connected(ps)
    PROVE  Connected(Longer(ps))
<1> SUFFICES ASSUME NEW p \in Longer(ps)
             PROVE  /\ p \in Seq(DOMAIN Pages) /\ Len(p) # 0
                    /\ \A i \in 1 .. Len(p) - 1 : HasPart(p[i], p[i + 1])
  BY DEF Connected
<1>1. PICK q \in ps, part \in UNION {Pages[n].parts : n \in DOMAIN Pages} : p = Append(q, part.page)
  BY DEF Longer
<1>2. q \in Seq(DOMAIN Pages) /\ Len(q) \in Nat /\ \A i \in 1 .. Len(q) - 1 : HasPart(q[i], q[i + 1])
  BY DEF Connected
<1>3. part.page \in DOMAIN Pages
  BY TableFits DEF PartsFit, PartFits
<1>4. p \in Seq(DOMAIN Pages) /\ Len(p) = Len(q) + 1 /\ \A i \in 1 .. Len(q) : p[i] = q[i]
  BY <1>1, <1>2, <1>3
<1>5. HasPart(p[Len(p) - 1], p[Len(p)])
  BY DEF Longer
<1>6. ASSUME NEW i \in 1 .. Len(p) - 1 PROVE HasPart(p[i], p[i + 1])
  <2>1. CASE i = Len(q)
    <3>1. Len(p) - 1 = i /\ Len(p) = i + 1
      BY <1>2, <1>4, <2>1
    <3>. QED
      BY <1>5, <3>1
  <2>2. CASE i # Len(q)
    <3>1. i \in 1 .. Len(q) - 1 /\ i \in 1 .. Len(q) /\ i + 1 \in 1 .. Len(q)
      BY <1>2, <1>4, <2>2
    <3>. QED
      BY <1>2, <1>4, <3>1
  <2>. QED
    BY <2>1, <2>2
<1>. QED
  BY <1>2, <1>4, <1>6

LEMMA PathShape ==
    ASSUME NEW p \in Paths
    PROVE  /\ Len(p) \in Nat \ {0} /\ DOMAIN p = 1 .. Len(p)
           /\ \A i \in 1 .. Len(p) : p[i] \in DOMAIN Pages
           /\ \A i \in 1 .. Len(p) - 1 : HasPart(p[i], p[i + 1])
<1>1. Connected(Single)
  <2>1. ASSUME NEW n \in DOMAIN Pages
        PROVE  <<n>> \in Seq(DOMAIN Pages) /\ Len(<<n>>) # 0 /\ 1 .. Len(<<n>>) - 1 = {}
    OBVIOUS
  <2>. QED
    BY <2>1 DEF Single, Connected
<1>2. p \in Single \cup Longer(Single) \cup Longer(Longer(Single)) \cup Longer(Longer(Longer(Single)))
  BY DEF Paths
<1>3. /\ p \in Seq(DOMAIN Pages) /\ Len(p) # 0
      /\ \A i \in 1 .. Len(p) - 1 : HasPart(p[i], p[i + 1])
  BY <1>1, <1>2, LongerConnected DEF Connected
<1>. QED
  BY <1>3

LEMMA Multiples ==
    ASSUME NEW k \in Nat, NEW n \in Nat
    PROVE  (n + 1) * k = n * k + k /\ n * k \in Nat /\ (n + 1) * k >= k
OBVIOUS

(* The bound of a level is one lifetime more than that of the level below.    *)
LEMMA BoundFacts ==
    ASSUME PageTypes
    PROVE  /\ Levels = 1 .. Len(path) /\ Len(path) \in Nat \ {0} /\ Lifetime \in Nat \ {0}
           /\ MaxSince \in Nat
           /\ \A i \in Levels : /\ Bound(i) \in Nat /\ Bound(i) >= Lifetime
                                /\ i # Len(path) => /\ i + 1 \in Levels
                                                    /\ Bound(i) = Bound(i + 1) + Lifetime
<1>1. /\ Levels = 1 .. Len(path) /\ Len(path) \in Nat \ {0} /\ Lifetime \in Nat \ {0}
  BY PathShape, CacheEntryConstants DEF PageTypes, Levels, Lifetime
<1>2. MaxSince \in Nat
  BY <1>1, Multiples DEF MaxSince
<1>3. ASSUME NEW i \in Levels
      PROVE  /\ Bound(i) \in Nat /\ Bound(i) >= Lifetime
             /\ i # Len(path) => i + 1 \in Levels /\ Bound(i) = Bound(i + 1) + Lifetime
  <2>0. Len(path) - i \in Nat
    BY <1>1
  <2>1. PICK n \in Nat : n = Len(path) - i
    BY <2>0
  <2>2. Bound(i) = (n + 1) * Lifetime
    BY <1>1, <2>1 DEF Bound
  <2>3. Bound(i) = n * Lifetime + Lifetime /\ Bound(i) \in Nat /\ Bound(i) >= Lifetime
    BY <1>1, <2>2, Multiples
  <2>4. CASE i # Len(path)
    <3>1. i + 1 \in Levels
      BY <1>1, <2>4
    <3>2. Bound(i + 1) = n * Lifetime
      BY <1>1, <2>1 DEF Bound
    <3>. QED
      BY <2>3, <3>1, <3>2
  <2>. QED
    BY <2>3, <2>4
<1>. QED
  BY <1>1, <1>2, <1>3

-----------------------------------------------------------------------------
(* Steps *)

(* What a level must hold, of one entry.                                      *)
EntryFits(i, e) ==
    e # None => /\ e \in PageEntries /\ e.of # "mixed"
                /\ e.of = "B" => differs \notin Pages[path[i]].loads
                /\ e.shows => since + e.ttl <= Bound(i)

LEMMA PageInvByLevel ==
    /\ PageInv => \A i \in Levels : EntryFits(i, entry[i])
    /\ /\ path \in Paths /\ differs \in Params /\ incident \in {"change", "outage"}
       /\ since \in Ongoing .. MaxSince /\ entry = [i \in Levels |-> entry[i]]
       /\ \A i \in Levels : EntryFits(i, entry[i])
       => PageInv
<1>1. ASSUME PageInv, NEW i \in Levels PROVE EntryFits(i, entry[i])
  BY <1>1 DEF PageInv, PageTypes, EntryFits, ServedAsAsked, OneScope, IncidentsPass
<1>2. ASSUME path \in Paths, differs \in Params, incident \in {"change", "outage"},
             since \in Ongoing .. MaxSince, entry = [i \in Levels |-> entry[i]],
             \A i \in Levels : EntryFits(i, entry[i])
      PROVE  PageInv
  <2>1. entry \in [Levels -> {None} \cup PageEntries]
    BY <1>2 DEF EntryFits
  <2>. QED
    BY <1>2, <2>1 DEF PageInv, PageTypes, EntryFits, ServedAsAsked, OneScope, IncidentsPass
<1>. QED
  BY <1>1, <1>2

(* A load leaves an entry for the query it was asked for, whose parts were    *)
(* asked for that query too, and which shows an incident no longer than its   *)
(* part did.                                                                  *)
LEMMA LoadsFit ==
    ASSUME PageInv, NEW i \in Levels, NEW for \in {"A", "B"}, SameKey(i, for), Loads(i, for)
    PROVE  \E e : EntryFits(i, e) /\ entry' = [entry EXCEPT ![i] = e]
<1>1. /\ Levels = 1 .. Len(path) /\ Len(path) \in Nat \ {0} /\ Lifetime \in Nat \ {0}
      /\ Bound(i) \in Nat /\ Bound(i) >= Lifetime /\ since \in Int
      /\ i # Len(path) => i + 1 \in Levels /\ Bound(i) = Bound(i + 1) + Lifetime
  BY BoundFacts DEF PageInv, PageTypes, Ongoing
<1>2. path[i] \in DOMAIN Pages /\ (i # Len(path) => HasPart(path[i], path[i + 1]))
  BY <1>1, PathShape DEF PageInv, PageTypes
<1>3. About(i, for) = for
  <2>1. SUFFICES ASSUME i < Len(path), PartQuery(i, for) # for,
                        differs \in Pages[path[i]].loads \cap Pages[path[i + 1]].loads
                 PROVE  FALSE
    BY DEF About
  <2>2. PICK part \in Pages[path[i]].parts : part.page = path[i + 1] /\ part = PartOf(path[i], path[i + 1])
    BY <1>1, <1>2, <2>1 DEF HasPart, PartOf
  <2>3. Pages[path[i]].loads \cap Pages[path[i + 1]].loads \subseteq part.passes
    BY <1>2, <2>2, TableFits DEF PartsFit, PartFits
  <2>. QED
    BY <2>1, <2>2, <2>3 DEF PartQuery
<1>4. for = "B" => differs \notin Pages[path[i]].loads
  BY <1>2, TableFits DEF SameKey, KeyHolds, KeyFits
<1>5. ASSUME NEW shows \in BOOLEAN, shows => since + Lifetime <= Bound(i)
      PROVE  EntryFits(i, Stored(About(i, for), shows))
  <2>1. PICK e : e = Stored(About(i, for), shows)
    OBVIOUS
  <2>2. e = [of |-> for, shows |-> shows, ttl |-> Lifetime]
    BY <1>3, <2>1 DEF Stored
  <2>3. e \in PageEntries
    BY <1>1, <2>2 DEF PageEntries
  <2>. QED
    BY <1>4, <1>5, <2>1, <2>2, <2>3 DEF EntryFits
<1>6. since = Ongoing => since + Lifetime <= Bound(i)
  BY <1>1 DEF Ongoing
<1>7. ASSUME NEW shows \in PartShows(i, for)
      PROVE  shows \in BOOLEAN /\ (shows => since + Lifetime <= Bound(i))
  <2>1. CASE i = Len(path)
    BY <1>7, <2>1 DEF PartShows
  <2>2. CASE i # Len(path) /\ SameKey(i + 1, PartQuery(i, for))
    <3>1. entry[i + 1] # None /\ shows = entry[i + 1].shows
      BY <1>7, <2>2 DEF PartShows
    <3>2. EntryFits(i + 1, entry[i + 1])
      BY <1>1, <2>2, PageInvByLevel
    <3>3. PICK e \in PageEntries : e = entry[i + 1]
      BY <3>1, <3>2 DEF EntryFits
    <3>4. e.shows \in BOOLEAN /\ e.ttl \in 1 .. Lifetime /\ (e.shows => since + e.ttl <= Bound(i + 1))
      BY <3>1, <3>2, <3>3 DEF EntryFits, PageEntries
    <3>5. Bound(i + 1) \in Int
      BY <1>1, <2>2, BoundFacts DEF PageInv
    <3>. QED
      BY <1>1, <2>2, <3>1, <3>3, <3>4, <3>5
  <2>3. CASE i # Len(path) /\ ~SameKey(i + 1, PartQuery(i, for))
    <3>1. shows = FALSE \/ (shows = TRUE /\ since < Bound(i + 1))
      BY <1>7, <2>3 DEF PartShows
    <3>2. Bound(i + 1) \in Int
      BY <1>1, <2>3, BoundFacts DEF PageInv
    <3>3. CASE shows = FALSE
      BY <3>3
    <3>4. CASE shows = TRUE /\ since < Bound(i + 1)
      BY <1>1, <2>3, <3>2, <3>4
    <3>. QED
      BY <3>1, <3>3, <3>4
  <2>. QED
    BY <2>1, <2>2, <2>3
<1>8. CASE since = Ongoing /\ entry' = [entry EXCEPT ![i] = Stored(About(i, for), TRUE)]
  BY <1>5, <1>6, <1>8
<1>9. ASSUME NEW shows \in PartShows(i, for),
             entry' = [entry EXCEPT ![i] = Stored(About(i, for),
                          shows \/ (since = Ongoing /\ incident = "change"))]
      PROVE  \E e : EntryFits(i, e) /\ entry' = [entry EXCEPT ![i] = e]
  <2>1. PICK b \in BOOLEAN : b = (shows \/ (since = Ongoing /\ incident = "change"))
    OBVIOUS
  <2>2. b => since + Lifetime <= Bound(i)
    BY <1>6, <1>7, <2>1
  <2>. QED
    BY <1>5, <1>9, <2>1, <2>2
<1>. QED
  BY <1>8, <1>9 DEF Loads

LEMMA PageStart == Init => PageInv
<1> SUFFICES ASSUME Init PROVE PageInv
  OBVIOUS
<1>1. Len(path) \in Nat \ {0}
  BY PathShape DEF Init
<1>2. Lifetime \in Nat /\ Len(path) * Lifetime \in Nat
  BY <1>1, CacheEntryConstants DEF Lifetime
<1>3. since \in Ongoing .. MaxSince
  BY <1>2 DEF Init, Ongoing, MaxSince
<1>4. entry = [i \in Levels |-> entry[i]] /\ \A i \in Levels : EntryFits(i, entry[i])
  BY DEF Init, EntryFits
<1>. QED
  BY <1>3, <1>4, PageInvByLevel DEF Init

LEMMA PageStep == PageInv /\ [Next]_vars => PageInv'
<1> SUFFICES ASSUME PageInv, [Next]_vars PROVE PageInv'
  OBVIOUS
<1>0. /\ path \in Paths /\ differs \in Params /\ incident \in {"change", "outage"}
      /\ since \in Ongoing .. MaxSince /\ MaxSince \in Nat /\ Lifetime \in Nat \ {0}
      /\ entry \in [Levels -> {None} \cup PageEntries]
      /\ \A i \in Levels : EntryFits(i, entry[i]) /\ Bound(i) \in Nat /\ Bound(i) >= Lifetime
  BY BoundFacts, PageInvByLevel DEF PageInv, PageTypes
<1>1. path' = path /\ differs' = differs /\ incident' = incident
  BY DEF Next, ColdMiss, Refresh, IncidentEnds, Tick, vars
<1>2. /\ Levels' = Levels /\ MaxSince' = MaxSince /\ PageEntries' = PageEntries
      /\ \A i : Bound(i)' = Bound(i)
  BY <1>1 DEF Levels, MaxSince, Bound, PageEntries, Lifetime
<1>t. ASSUME since' \in Ongoing .. MaxSince, entry' = [i \in Levels |-> entry'[i]],
             \A i \in Levels : EntryFits(i, entry[i])'
      PROVE  PageInv'
  <2>1. /\ path' \in Paths /\ differs' \in Params
        /\ incident' \in {"change", "outage"} /\ since' \in Ongoing .. MaxSince'
        /\ entry' = [i \in Levels' |-> entry'[i]]
        /\ \A i \in Levels' : EntryFits(i, entry[i])'
    BY <1>0, <1>1, <1>2, <1>t
  <2>2. (entry \in [Levels -> {None} \cup PageEntries])'
    BY <2>1 DEF EntryFits
  <2>. QED
    BY <2>1, <2>2 DEF PageInv, PageTypes, EntryFits, ServedAsAsked, OneScope, IncidentsPass
<1>3. ASSUME NEW i \in Levels, NEW for \in {"A", "B"}, ColdMiss(i, for) \/ Refresh(i, for)
      PROVE  PageInv'
  <2>1. SameKey(i, for) /\ Loads(i, for) /\ since' = since
    BY <1>3 DEF ColdMiss, Refresh
  <2>2. PICK e : EntryFits(i, e) /\ entry' = [entry EXCEPT ![i] = e]
    BY <2>1, LoadsFit
  <2>3. \A j \in Levels : EntryFits(j, entry'[j])
    BY <1>0, <2>2
  <2>4. \A j \in Levels : EntryFits(j, entry[j])'
    BY <1>1, <1>2, <2>1, <2>3 DEF EntryFits
  <2>. QED
    BY <1>0, <1>t, <2>1, <2>2, <2>4
<1>4. CASE IncidentEnds
  <2>1. since = -1 /\ since' = 0 /\ entry' = entry
    BY <1>4 DEF IncidentEnds, Ongoing
  <2>2. ASSUME NEW j \in Levels PROVE EntryFits(j, entry[j])'
    <3>1. CASE entry[j] = None
      BY <2>1, <3>1 DEF EntryFits
    <3>2. CASE entry[j] # None
      <4>1. PICK e \in PageEntries : e = entry[j] /\ EntryFits(j, e)
        BY <1>0, <3>2 DEF EntryFits
      <4>2. e.ttl \in 1 .. Lifetime
        BY <4>1 DEF PageEntries
      <4>3. 0 + e.ttl <= Bound(j)
        BY <1>0, <4>2
      <4>. QED
        BY <1>1, <1>2, <2>1, <4>1, <4>3 DEF EntryFits
    <3>. QED
      BY <3>1, <3>2
  <2>3. 0 \in Ongoing .. MaxSince
    BY <1>0 DEF Ongoing
  <2>. QED
    BY <1>0, <1>t, <2>1, <2>2, <2>3
<1>5. CASE Tick
  <2>1. since' \in Ongoing .. MaxSince /\ since' <= since + 1 /\ since \in Int /\ since' \in Int
    BY <1>0, <1>5 DEF Tick, Ongoing
  <2>2. ASSUME NEW j \in Levels PROVE EntryFits(j, entry[j])'
    <3>1. entry'[j] = Expire(entry[j])
      BY <1>5 DEF Tick
    <3>2. CASE entry[j] = None \/ entry[j].ttl = 1
      BY <3>1, <3>2 DEF EntryFits, Expire
    <3>3. CASE entry[j] # None /\ entry[j].ttl # 1
      <4>1. PICK e \in PageEntries : e = entry[j] /\ EntryFits(j, e)
        BY <1>0, <3>3 DEF EntryFits
      <4>2. PICK f : f = [e EXCEPT !.ttl = @ - 1]
        OBVIOUS
      <4>3. /\ f.of = e.of /\ f.shows = e.shows /\ f.ttl = e.ttl - 1 /\ f \in PageEntries
            /\ e.ttl \in 1 .. Lifetime
        BY <1>0, <3>3, <4>1, <4>2 DEF PageEntries
      <4>4. entry'[j] = f
        BY <3>1, <3>3, <4>1, <4>2 DEF Expire
      <4>5. e # None /\ (e.shows => since + e.ttl <= Bound(j))
        BY <3>3, <4>1 DEF EntryFits
      <4>6. f.shows => since' + f.ttl <= Bound(j)
        BY <1>0, <2>1, <4>3, <4>5
      <4>. QED
        BY <1>1, <1>2, <4>1, <4>3, <4>4, <4>5, <4>6 DEF EntryFits
    <3>. QED
      BY <3>2, <3>3
  <2>3. entry' = [j \in Levels |-> entry'[j]]
    BY <1>5 DEF Tick
  <2>. QED
    BY <1>t, <2>1, <2>2, <2>3
<1>6. CASE UNCHANGED vars
  <2>1. since' = since /\ entry' = entry
    BY <1>6 DEF vars
  <2>2. \A j \in Levels : EntryFits(j, entry[j])'
    BY <1>0, <1>1, <1>2, <2>1 DEF EntryFits
  <2>. QED
    BY <1>0, <1>t, <2>1, <2>2
<1>. QED
  BY <1>3, <1>4, <1>5, <1>6 DEF Next

(* Whoever reads a cached page gets a page about what was asked for, for all  *)
(* pages, parameters and lifetimes: no two queries that a loader tells apart  *)
(* share a key, and every part is asked for what the page was asked for.      *)
THEOREM PagesAnswer == Spec => []AnswersFit
<1>1. PageInv => AnswersFit
  BY DEF PageInv, PageTypes, PageEntries, AnswersFit, TypeOK
<1>. QED
  BY <1>1, PageStart, PageStep, PTL DEF Spec

(* Old data and the holes of an outage are gone from a page when it and the   *)
(* pages below it have outlived their lifetimes, for all lifetimes: no cycle  *)
(* of stale pages that refresh from stale parts keeps them alive.             *)
THEOREM IncidentsEnd == Spec => []IncidentsPass
<1>1. PageInv => IncidentsPass
  BY DEF PageInv
<1>. QED
  BY <1>1, PageStart, PageStep, PTL DEF Spec

-----------------------------------------------------------------------------
(* RouteCache: a key, its lease and its fillers *)

RouteEntries == [lag : Lags, ttl : 1 .. FreshTtl + StaleTtl, readable : BOOLEAN]
Leases == [by : Tasks, ttl : 1 .. LeaseTtl]
TaskStates == [pc : {"idle", "acquire", "wait", "load", "loaded", "release", "finish"},
               lag : Lags, clock : 0 .. LoadTime, owner : BOOLEAN]

LEMMA CacheNumbers ==
    /\ Home \in [Readers -> Processes] /\ Readers \cap Processes = {}
    /\ FreshTtl \in Nat \ {0} /\ StaleTtl \in Nat
    /\ LeaseTtl \in Nat \ {0} /\ LoadTime \in Nat /\ MaxFaults \in Nat
    /\ Families \subseteq {"listing", "banner", "overview", "detail"}
BY RouteCacheConstants, CacheEntryConstants

(* Lags grow by one tick at most, up to the point where they are not told     *)
(* apart; what is current is superseded with lag 0.                           *)
LEMMA LagFacts ==
    /\ Current \in Lags /\ Current = -1 /\ MaxLag \in Nat
    /\ \A lag \in Lags : /\ lag \in Int
                         /\ Older(lag) \in Lags /\ Older(lag) <= lag + 1
                         /\ Superseded(lag) \in Lags
                         /\ Superseded(lag) = lag \/ Superseded(lag) = 0
BY CacheNumbers DEF Lags, Current, MaxLag, Older, Superseded

LEMMA LifetimeFacts == FamilyLifetime \in 1 .. FreshTtl + StaleTtl
BY CacheNumbers DEF FamilyLifetime

LEMMA StoredFacts ==
    \A lag \in Lags : /\ StoredRoute(lag) \in RouteEntries
                      /\ StoredRoute(lag).lag = lag /\ StoredRoute(lag).ttl = FamilyLifetime
BY LifetimeFacts DEF StoredRoute, RouteEntries

LEMMA IdleType == Idle \in TaskStates /\ [Idle EXCEPT !.pc = "finish"] \in TaskStates
<1>1. Current \in Lags /\ 0 \in 0 .. LoadTime  BY LagFacts, CacheNumbers
<1> QED BY <1>1 DEF Idle, TaskStates

(* One tick on an entry and on a lease: the lifetime goes down by one, and     *)
(* what has none left is dropped.                                             *)
LEMMA AgedEntry ==
    ASSUME NEW e \in {None} \cup RouteEntries
    PROVE  LET aged == Expire(e)
               next == IF aged = None THEN None ELSE [aged EXCEPT !.lag = Older(@)]
           IN  \/ next = None
               \/ /\ next \in RouteEntries /\ e # None
                  /\ next.ttl = e.ttl - 1 /\ next.lag <= e.lag + 1
<1> DEFINE aged == Expire(e)
           next == IF aged = None THEN None ELSE [aged EXCEPT !.lag = Older(@)]
<1>1. CASE e = None \/ e.ttl = 1  BY <1>1 DEF Expire
<1>2. CASE e # None /\ e.ttl # 1
  <2>1. e \in RouteEntries /\ aged = [e EXCEPT !.ttl = @ - 1]  BY <1>2 DEF Expire
  <2>2. e.lag \in Lags /\ e.ttl \in 1 .. FreshTtl + StaleTtl /\ e.readable \in BOOLEAN
    BY <2>1 DEF RouteEntries
  <2>3. Older(e.lag) \in Lags /\ Older(e.lag) <= e.lag + 1  BY <2>2, LagFacts
  <2>4. e.ttl - 1 \in 1 .. FreshTtl + StaleTtl  BY <1>2, <2>2, CacheNumbers
  <2>5. aged \in RouteEntries /\ aged.ttl = e.ttl - 1 /\ aged.lag = e.lag
    BY <2>1, <2>2, <2>4 DEF RouteEntries
  <2> HIDE DEF aged
  <2>6. /\ [aged EXCEPT !.lag = Older(@)] \in RouteEntries
        /\ [aged EXCEPT !.lag = Older(@)].ttl = aged.ttl
        /\ [aged EXCEPT !.lag = Older(@)].lag = Older(aged.lag)
    BY <2>3, <2>5 DEF RouteEntries
  <2>7. \/ next = None
        \/ next \in RouteEntries /\ next.ttl = e.ttl - 1 /\ next.lag <= e.lag + 1
    BY <2>3, <2>5, <2>6
  <2> QED BY <1>2, <2>7 DEF next, aged
<1> QED BY <1>1, <1>2

LEMMA AgedLease ==
    ASSUME NEW e \in {None} \cup Leases
    PROVE  Expire(e) \in {None} \cup Leases
<1>1. CASE e = None \/ e.ttl = 1  BY <1>1 DEF Expire
<1>2. CASE e # None /\ e.ttl # 1
  <2>1. e \in Leases /\ Expire(e) = [e EXCEPT !.ttl = @ - 1]  BY <1>2 DEF Expire
  <2>2. e.ttl - 1 \in 1 .. LeaseTtl  BY <1>2, <2>1, CacheNumbers DEF Leases
  <2> QED BY <2>1, <2>2 DEF Leases
<1> QED BY <1>1, <1>2

(* A step of a reader, a fill, a process or a writer keeps the types.         *)
LEMMA RouteTypeStep == RouteTypeOK /\ [RouteNext]_routeVars => RouteTypeOK'
<1> SUFFICES ASSUME RouteTypeOK, [RouteNext]_routeVars PROVE RouteTypeOK'
  OBVIOUS
<1>0. /\ family \in Families /\ response \in {None} \cup RouteEntries /\ lease \in {None} \cup Leases
      /\ inflight \subseteq Processes /\ task \in [Tasks -> TaskStates] /\ edit \in BOOLEAN
      /\ faults \in 0 .. MaxFaults
  BY DEF RouteTypeOK, RouteEntries, Leases, TaskStates
<1>t. ASSUME family' \in Families, response' \in {None} \cup RouteEntries, lease' \in {None} \cup Leases,
             inflight' \subseteq Processes, task' \in [Tasks -> TaskStates], edit' \in BOOLEAN,
             faults' \in 0 .. MaxFaults
      PROVE  RouteTypeOK'
  BY <1>t DEF RouteTypeOK, RouteEntries, Leases, TaskStates
<1>f. Fault \/ NoFault => faults' \in 0 .. MaxFaults
  BY <1>0, CacheNumbers DEF Fault, NoFault
<1>g. ASSUME NEW t \in Tasks,
             NEW pc \in {"idle", "acquire", "wait", "load", "loaded", "release", "finish"}, Goto(t, pc)
      PROVE  task' \in [Tasks -> TaskStates]
  BY <1>0, <1>g DEF Goto, TaskStates
<1>1. ASSUME NEW r \in Readers, Reader(r) PROVE RouteTypeOK'
  <2>0. r \in Tasks /\ Home[r] \in Tasks /\ Home[r] \in Processes  BY CacheNumbers DEF Tasks
  <2>1. CASE ServeCached(r)
    <3>1. task' \in [Tasks -> TaskStates]  BY <1>0, <1>g, <2>0, <2>1 DEF ServeCached
    <3> QED BY <1>0, <1>t, <2>0, <2>1, <3>1 DEF ServeCached
  <2>2. CASE Miss(r)
    <3>1. task' \in [Tasks -> TaskStates]  BY <1>g, <2>0, <2>2 DEF Miss
    <3>2. response' \in {None} \cup RouteEntries  BY <1>0, <2>2 DEF Miss
    <3>3. faults' \in 0 .. MaxFaults  BY <1>f, <2>2 DEF Miss
    <3> QED BY <1>0, <1>t, <2>2, <3>1, <3>2, <3>3 DEF Miss
  <2>3. CASE Coalesce(r)  BY <1>0, <1>t, <2>0, <2>3, IdleType DEF Coalesce
  <2>4. CASE GiveUpWaiting(r)
    <3>1. task' \in [Tasks -> TaskStates]  BY <1>g, <2>0, <2>4 DEF GiveUpWaiting
    <3> QED BY <1>0, <1>t, <2>4, <3>1 DEF GiveUpWaiting
  <2>5. CASE Abandon(r)  BY <1>0, <1>t, <2>0, <2>5, IdleType DEF Abandon
  <2> QED BY <1>1, <2>1, <2>2, <2>3, <2>4, <2>5 DEF Reader
<1>2. ASSUME NEW t \in Tasks, Filler(t) PROVE RouteTypeOK'
  <2>1. CASE Acquire(t)
    <3>1. task' \in [Tasks -> TaskStates]
      <4>1. CASE task' = [task EXCEPT ![t].pc = "load", ![t].owner = TRUE]
        BY <1>0, <4>1 DEF TaskStates
      <4>2. CASE \E pc \in {"wait", "release", "load"} : Goto(t, pc)
        BY <1>g, <4>2
      <4> QED BY <2>1, <4>1, <4>2 DEF Acquire
    <3>2. lease' \in {None} \cup Leases
      <4>1. [by |-> t, ttl |-> LeaseTtl] \in Leases  BY CacheNumbers DEF Leases
      <4> QED BY <1>0, <2>1, <4>1 DEF Acquire
    <3>3. faults' \in 0 .. MaxFaults  BY <1>f, <2>1 DEF Acquire
    <3> QED BY <1>0, <1>t, <2>1, <3>1, <3>2, <3>3 DEF Acquire
  <2>2. CASE Load(t)
    <3>1. task' \in [Tasks -> TaskStates]
      <4>1. Current \in Lags /\ 0 \in 0 .. LoadTime  BY LagFacts, CacheNumbers
      <4> QED BY <1>0, <2>2, <4>1 DEF Load, TaskStates
    <3> QED BY <1>0, <1>t, <2>2, <3>1 DEF Load
  <2>3. CASE LoadFails(t)
    <3>1. task' \in [Tasks -> TaskStates]  BY <1>g, <2>3 DEF LoadFails
    <3> QED BY <1>0, <1>f, <1>t, <2>3, <3>1 DEF LoadFails
  <2>4. CASE StoreLoaded(t)
    <3>1. task' \in [Tasks -> TaskStates]
      <4>1. Current \in Lags /\ 0 \in 0 .. LoadTime  BY LagFacts, CacheNumbers
      <4> QED BY <1>0, <2>4, <4>1 DEF StoreLoaded, TaskStates
    <3>2. StoredRoute(task[t].lag) \in RouteEntries  BY <1>0, StoredFacts DEF TaskStates
    <3>3. response' \in {None} \cup RouteEntries /\ faults' \in 0 .. MaxFaults
      BY <1>0, <1>f, <2>4, <3>2 DEF StoreLoaded, Store
    <3> QED BY <1>0, <1>t, <2>4, <3>1, <3>3 DEF StoreLoaded
  <2>5. CASE Release(t)
    <3>1. task' \in [Tasks -> TaskStates]  BY <1>0, <2>5, IdleType DEF Release
    <3>2. lease' \in {None} \cup Leases /\ faults' \in 0 .. MaxFaults
      BY <1>0, <1>f, <2>5 DEF Release, ReleaseLease
    <3> QED BY <1>0, <1>t, <2>5, <3>1, <3>2 DEF Release
  <2> QED BY <1>2, <2>1, <2>2, <2>3, <2>4, <2>5 DEF Filler
<1>3. ASSUME NEW p \in Processes, FinishRefresh(p) \/ ProcessDies(p) PROVE RouteTypeOK'
  <2>1. p \in Tasks  BY DEF Tasks
  <2>2. CASE FinishRefresh(p)  BY <1>0, <1>t, <2>1, <2>2, IdleType DEF FinishRefresh
  <2>3. CASE ProcessDies(p)  BY <1>0, <1>f, <1>t, <2>3, IdleType DEF ProcessDies
  <2> QED BY <1>3, <2>2, <2>3
<1>4. CASE Others
  <2>1. Supersede => response' \in {None} \cup RouteEntries /\ task' \in [Tasks -> TaskStates]
    BY <1>0, LagFacts DEF Supersede, RouteEntries, TaskStates
  <2>2. CASE WorkerWrites  BY <1>0, <1>t, <2>1, <2>2 DEF WorkerWrites
  <2>3. CASE AdminWrites  BY <1>0, <1>t, <2>1, <2>3 DEF AdminWrites
  <2>4. CASE AdminDeletesKey  BY <1>0, <1>f, <1>t, <2>4 DEF AdminDeletesKey
  <2>5. CASE Flush  BY <1>0, <1>t, <2>5 DEF Flush
  <2>6. CASE RouteTick
    <3>1. response' \in {None} \cup RouteEntries
      BY <1>0, <2>6, AgedEntry DEF RouteTick
    <3>2. lease' \in {None} \cup Leases  BY <1>0, <2>6, AgedLease DEF RouteTick
    <3>3. ASSUME NEW t \in Tasks PROVE task'[t] \in TaskStates
      <4>1. task[t] \in TaskStates  BY <1>0
      <4>2. Older(task[t].lag) \in Lags  BY <4>1, LagFacts DEF TaskStates
      <4>3. task[t].pc = "loaded" => task[t].clock + 1 \in 0 .. LoadTime
        <5>1. task[t].clock \in 0 .. LoadTime  BY <4>1 DEF TaskStates
        <5>2. task[t].pc = "loaded" => task[t].clock < LoadTime  BY <2>6 DEF RouteTick
        <5> QED BY <5>1, <5>2, CacheNumbers
      <4> QED BY <2>6, <4>1, <4>2, <4>3 DEF RouteTick, TaskStates
    <3>4. task' \in [Tasks -> TaskStates]  BY <2>6, <3>3 DEF RouteTick
    <3> QED BY <1>0, <1>t, <2>6, <3>1, <3>2, <3>4 DEF RouteTick
  <2> QED BY <1>4, <2>2, <2>3, <2>4, <2>5, <2>6 DEF Others
<1>5. CASE UNCHANGED routeVars  BY <1>0, <1>t, <1>5 DEF routeVars
<1> QED BY <1>1, <1>2, <1>3, <1>4, <1>5 DEF RouteNext

LEMMA RouteTypeInit == RouteInit => RouteTypeOK
<1> SUFFICES ASSUME RouteInit PROVE RouteTypeOK
  OBVIOUS
<1>1. Current \in Lags /\ FamilyLifetime \in 1 .. FreshTtl + StaleTtl  BY LagFacts, LifetimeFacts
<1>2. [lag |-> Current, ttl |-> FamilyLifetime, readable |-> FALSE] \in RouteEntries
  BY <1>1 DEF RouteEntries
<1>3. response \in {None} \cup RouteEntries  BY <1>2 DEF RouteInit
<1>4. task \in [Tasks -> TaskStates]  BY IdleType DEF RouteInit
<1>5. faults \in 0 .. MaxFaults  BY CacheNumbers DEF RouteInit
<1> QED BY <1>3, <1>4, <1>5 DEF RouteInit, RouteTypeOK, RouteEntries, TaskStates

(* The cache, its leases and its tasks keep their types: no lifetime or load  *)
(* time goes out of its bounds.                                               *)
THEOREM CacheTypeCorrect == RouteSpec => []RouteTypeOK
BY RouteTypeInit, RouteTypeStep, PTL DEF RouteSpec

-----------------------------------------------------------------------------
(* How old an answer can be *)

(* What a loader has read is behind the database by at most the time since.   *)
LoadedIsBounded == \A t \in Tasks : task[t].pc = "loaded" => task[t].lag <= task[t].clock

(* No entry outlives the lifetime its family gives it.                        *)
KeptInTime == response # None => response.ttl <= FamilyLifetime

AgeInv == RouteTypeOK /\ LoadedIsBounded /\ KeptInTime /\ ServedIsBounded

(* The bound on an entry of a given lag and lifetime.                         *)
BoundedEntry(e) == e.ttl <= FamilyLifetime /\ e.lag <= LoadTime + (FamilyLifetime - e.ttl)

LEMMA AgeStep == AgeInv /\ [RouteNext]_routeVars => AgeInv'
<1> SUFFICES ASSUME AgeInv, [RouteNext]_routeVars PROVE AgeInv'
  OBVIOUS
<1>0. /\ response \in {None} \cup RouteEntries /\ task \in [Tasks -> TaskStates]
      /\ response # None => BoundedEntry(response)
      /\ FamilyLifetime \in Nat /\ LoadTime \in Nat
  BY LifetimeFacts, CacheNumbers
     DEF AgeInv, RouteTypeOK, RouteEntries, TaskStates, KeptInTime, ServedIsBounded, BoundedEntry
<1>1. RouteTypeOK'  BY RouteTypeStep DEF AgeInv
<1>2. family' = family /\ FamilyLifetime' = FamilyLifetime
  BY DEF RouteNext, Reader, ServeCached, Miss, Coalesce, GiveUpWaiting, Abandon, Filler,
     Acquire, Load,
         LoadFails, StoreLoaded, Release, FinishRefresh, ProcessDies, Others, WorkerWrites,
         AdminWrites, AdminDeletesKey, Flush, RouteTick, routeVars, FamilyLifetime, Refreshes
<1>3. ASSUME LoadedIsBounded', response' # None => BoundedEntry(response')
      PROVE  AgeInv'
  BY <1>1, <1>2, <1>3 DEF AgeInv, KeptInTime, ServedIsBounded, BoundedEntry
<1>4. ASSUME response' \in {response, None},
             \A t \in Tasks : task'[t].pc = "loaded" => task'[t] = task[t]
      PROVE  AgeInv'
  BY <1>0, <1>3, <1>4 DEF AgeInv, LoadedIsBounded
<1>5. ASSUME NEW r \in Readers, Reader(r) PROVE AgeInv'
  <2>1. r \in Tasks /\ Home[r] \in Tasks  BY CacheNumbers DEF Tasks
  <2>2. response' \in {response, None}
    BY <1>5 DEF Reader, ServeCached, Miss, Coalesce, GiveUpWaiting, Abandon
  <2>3. \A t \in Tasks : task'[t].pc = "loaded" => task'[t] = task[t]
    BY <1>0, <1>5, <2>1
       DEF Reader, ServeCached, Miss, Coalesce, GiveUpWaiting, Abandon, Goto, TaskStates, Idle
  <2> QED BY <1>4, <2>2, <2>3
<1>6. ASSUME NEW t \in Tasks, Filler(t) PROVE AgeInv'
  <2>1. CASE Acquire(t)
    <3>1. \A u \in Tasks : task'[u].pc = "loaded" => task'[u] = task[u]
      BY <1>0, <2>1 DEF Acquire, Goto, TaskStates
    <3> QED BY <1>4, <2>1, <3>1 DEF Acquire
  <2>2. CASE Load(t)
    <3>1. \A u \in Tasks \ {t} : task'[u] = task[u]  BY <1>0, <2>2 DEF Load
    <3>2. task'[t].lag = Current /\ task'[t].clock = 0  BY <1>0, <2>2 DEF Load, TaskStates
    <3>3. LoadedIsBounded'
      BY <3>1, <3>2, LagFacts DEF AgeInv, LoadedIsBounded
    <3> QED BY <1>0, <1>3, <2>2, <3>3 DEF Load
  <2>3. CASE LoadFails(t)
    <3>1. \A u \in Tasks : task'[u].pc = "loaded" => task'[u] = task[u]
      BY <1>0, <2>3 DEF LoadFails, Goto, TaskStates
    <3> QED BY <1>4, <2>3, <3>1 DEF LoadFails
  <2>4. CASE StoreLoaded(t)
    <3>1. \A u \in Tasks : task'[u].pc = "loaded" => task'[u] = task[u]
      BY <1>0, <2>4 DEF StoreLoaded, TaskStates
    <3>2. task[t].lag \in Lags /\ task[t].clock \in 0 .. LoadTime  BY <1>0 DEF TaskStates
    <3>3. task[t].lag <= LoadTime
      BY <1>0, <2>4, <3>2, LagFacts DEF AgeInv, LoadedIsBounded, StoreLoaded
    <3>4. StoredRoute(task[t].lag).ttl = FamilyLifetime /\ StoredRoute(task[t].lag).lag = task[t].lag
      BY <3>2, StoredFacts
    <3>5. BoundedEntry(StoredRoute(task[t].lag))  BY <1>0, <3>2, <3>3, <3>4, LagFacts
       DEF BoundedEntry
    <3>6. response' \in {response, StoredRoute(task[t].lag)}  BY <2>4 DEF StoreLoaded, Store
    <3>7. LoadedIsBounded'  BY <3>1 DEF AgeInv, LoadedIsBounded
    <3> QED BY <1>0, <1>3, <3>5, <3>6, <3>7
  <2>5. CASE Release(t)
    <3>1. \A u \in Tasks : task'[u].pc = "loaded" => task'[u] = task[u]
      BY <1>0, <2>5 DEF Release, TaskStates, Idle
    <3> QED BY <1>4, <2>5, <3>1 DEF Release
  <2> QED BY <1>6, <2>1, <2>2, <2>3, <2>4, <2>5 DEF Filler
<1>7. ASSUME NEW p \in Processes, FinishRefresh(p) \/ ProcessDies(p) PROVE AgeInv'
  <2>1. \A u \in Tasks : task'[u].pc = "loaded" => task'[u] = task[u]
    BY <1>0, <1>7 DEF FinishRefresh, ProcessDies, Idle, Tasks
  <2> QED BY <1>4, <1>7, <2>1 DEF FinishRefresh, ProcessDies
<1>8. CASE WorkerWrites \/ AdminWrites
  <2>1. Supersede  BY <1>8 DEF WorkerWrites, AdminWrites
  <2>2. ASSUME NEW t \in Tasks, task'[t].pc = "loaded" PROVE task'[t].lag <= task'[t].clock
    <3>1. task[t] \in TaskStates  BY <1>0
    <3>2. task'[t].pc = task[t].pc /\ task'[t].clock = task[t].clock
      BY <2>1, <3>1 DEF Supersede, TaskStates
    <3>3. task'[t].lag = Superseded(task[t].lag)
      BY <2>1, <2>2, <3>1, <3>2 DEF Supersede, TaskStates
    <3>4. task[t].lag \in Lags /\ task[t].clock \in Nat  BY <3>1, CacheNumbers DEF TaskStates
    <3>5. task[t].lag <= task[t].clock  BY <2>2, <3>2 DEF AgeInv, LoadedIsBounded
    <3>6. task[t].lag \in Int /\ task'[t].lag \in {task[t].lag, 0}  BY <3>3, <3>4, LagFacts
    <3>7. task'[t].lag <= task[t].clock  BY <3>4, <3>5, <3>6
    <3> QED BY <3>2, <3>7
  <2>3. response' # None => BoundedEntry(response')
    <3>1. CASE response = None  BY <2>1, <3>1 DEF Supersede
    <3>2. CASE response # None
      <4>1. response \in RouteEntries /\ BoundedEntry(response)  BY <1>0, <3>2
      <4>2. response'.ttl = response.ttl /\ response'.lag = Superseded(response.lag)
        BY <2>1, <3>2, <4>1 DEF Supersede, RouteEntries
      <4>3. response.lag \in Lags /\ response.ttl \in Nat  BY <4>1, CacheNumbers DEF RouteEntries
      <4>4. response.lag \in Int /\ response'.lag \in {response.lag, 0}  BY <4>2, <4>3, LagFacts
      <4>5. response'.lag <= LoadTime + (FamilyLifetime - response.ttl)
        BY <1>0, <4>1, <4>3, <4>4 DEF BoundedEntry
      <4> QED BY <4>1, <4>2, <4>5 DEF BoundedEntry
    <3> QED BY <3>1, <3>2
  <2> QED BY <1>3, <2>2, <2>3 DEF LoadedIsBounded
<1>9. CASE AdminDeletesKey \/ Flush
  BY <1>4, <1>9 DEF AdminDeletesKey, Flush
<1>10. CASE RouteTick
  <2>1. ASSUME NEW t \in Tasks, task'[t].pc = "loaded" PROVE task'[t].lag <= task'[t].clock
    <3>1. task[t] \in TaskStates  BY <1>0
    <3>2. task[t].pc = "loaded"  BY <1>10, <2>1, <3>1 DEF RouteTick, TaskStates
    <3>3. task'[t].lag = Older(task[t].lag) /\ task'[t].clock = task[t].clock + 1
      BY <1>10, <3>1, <3>2 DEF RouteTick, TaskStates
    <3>4. task[t].lag \in Lags /\ task[t].clock \in Nat  BY <3>1, CacheNumbers DEF TaskStates
    <3>5. task[t].lag <= task[t].clock  BY <3>2 DEF AgeInv, LoadedIsBounded
    <3>6. task[t].lag \in Int /\ Older(task[t].lag) \in Int
      BY <3>4, LagFacts
    <3>7. Older(task[t].lag) <= task[t].lag + 1  BY <3>4, LagFacts
    <3>8. Older(task[t].lag) <= task[t].clock + 1  BY <3>4, <3>5, <3>6, <3>7
    <3> QED BY <3>3, <3>8
  <2>2. response' # None => BoundedEntry(response')
    <3> SUFFICES ASSUME response' # None PROVE BoundedEntry(response')
      OBVIOUS
    <3>1. /\ response # None /\ response'.ttl = response.ttl - 1
          /\ response'.lag <= response.lag + 1 /\ response' \in RouteEntries
      BY <1>0, <1>10, AgedEntry DEF RouteTick
    <3>2. response \in RouteEntries /\ BoundedEntry(response)  BY <1>0, <3>1
    <3>3. response.lag \in Lags /\ response.ttl \in Nat /\ response'.lag \in Lags
      BY <3>1, <3>2, CacheNumbers DEF RouteEntries
    <3>4. response.lag \in Int /\ response'.lag \in Int  BY <3>3, LagFacts
    <3> QED BY <1>0, <3>1, <3>2, <3>3, <3>4 DEF BoundedEntry
  <2> QED BY <1>3, <2>1, <2>2 DEF LoadedIsBounded
<1>11. CASE UNCHANGED routeVars
  <2>1. response' = response /\ task' = task  BY <1>11 DEF routeVars
  <2> QED BY <1>4, <2>1
<1> QED BY <1>5, <1>6, <1>7, <1>8, <1>9, <1>10, <1>11 DEF RouteNext, Others

(* A response in the cache is never further behind the database than its load *)
(* took and it has been kept, for all lifetimes and load times and whatever   *)
(* leases, stores and invalidations are lost.                                 *)
THEOREM AgeIsBounded == RouteSpec => []ServedIsBounded
<1>1. RouteInit => AgeInv
  <2> SUFFICES ASSUME RouteInit PROVE AgeInv
    OBVIOUS
  <2>1. LoadedIsBounded  BY DEF RouteInit, LoadedIsBounded, Idle
  <2>2. response # None => response.lag = -1 /\ response.ttl = FamilyLifetime
    BY LagFacts DEF RouteInit
  <2>3. KeptInTime /\ ServedIsBounded
    BY <2>2, LifetimeFacts, CacheNumbers DEF KeptInTime, ServedIsBounded
  <2> QED BY <2>1, <2>3, RouteTypeInit DEF AgeInv
<1>2. AgeInv => ServedIsBounded  BY DEF AgeInv
<1> QED BY <1>1, <1>2, AgeStep, PTL DEF RouteSpec

(* release_lease frees nobody else's lease: a lease ends by its owner's       *)
(* release, by its lifetime or by a flush, however slow a fill was.           *)
THEOREM LeasesEndRightly == RouteSpec => LeaseEndsRightly
<1>1. ASSUME RouteTypeOK, [RouteNext]_routeVars
      PROVE  [lease # None /\ lease' = None =>
                 \/ task[lease.by].owner /\ ~task'[lease.by].owner
                 \/ RouteTick \/ Flush]_routeVars
  <2> SUFFICES ASSUME RouteNext, lease # None, lease' = None
               PROVE  (task[lease.by].owner /\ ~task'[lease.by].owner) \/ RouteTick \/ Flush
    BY <1>1
  <2>1. CASE RouteTick \/ Flush  BY <2>1
  <2>2. ASSUME NEW t \in Tasks, Release(t)
        PROVE  task[lease.by].owner /\ ~task'[lease.by].owner
    <3>1. task[t].owner /\ lease.by = t  BY <2>2 DEF Release, ReleaseLease
    <3>2. task'[t].owner = FALSE  BY <1>1, <2>2 DEF Release, Idle, RouteTypeOK
    <3> QED BY <3>1, <3>2
  <2>3. CASE ~(RouteTick \/ Flush) /\ ~\E t \in Tasks : Release(t)
    <3>1. lease' = lease
      BY <2>3
         DEF RouteNext, Reader, ServeCached, Miss, Coalesce, GiveUpWaiting, Abandon, Filler, Acquire, Load,
             LoadFails, StoreLoaded, FinishRefresh, ProcessDies, Others, WorkerWrites, AdminWrites,
             AdminDeletesKey
    <3> QED BY <3>1
  <2> QED BY <2>1, <2>2, <2>3
<1> QED BY <1>1, CacheTypeCorrect, PTL DEF RouteSpec, LeaseEndsRightly

-----------------------------------------------------------------------------
(* Admission *)

States == [phase : Phases, expired : BOOLEAN]
SavedStates == {NoState} \cup [phase : Phases, expired : {FALSE}]
Calls == [pc : {"idle", "previous", "expire", "persist", "apply", "count", "check", "arm", "parked"},
          phase : Phases, drain : BOOLEAN]
Reqs == [pc : Steps, kind : Kinds \cup {"internal"}, guard : BOOLEAN, slot : BOOLEAN,
         late : BOOLEAN]

(* Everything but the requests and their counts.                              *)
ControlTypes ==
    /\ drained \in BOOLEAN /\ saved \in SavedStates /\ local \in States /\ op \in Calls
    /\ used \in 0 .. AuthLimit + 1 /\ logins \in 0 .. AuthLimit + 1
    /\ server \in {"up", "draining", "down"}

Guards == {r \in Requests : req[r].guard}
Holders == {r \in Requests : req[r].slot}

Inside == {"limits", "slot", "auth", "handler"}

(* Guards are held from the gate to the answer, slots from the key to the     *)
(* answer, and nowhere else.                                                  *)
RequestFits(q) ==
    /\ q.guard => q.pc \in Inside
    /\ Gated(q.kind) /\ q.pc \in Inside => q.guard
    /\ q.slot => q.pc \in {"auth", "handler"}
    /\ q.kind = "developer" /\ q.pc \in {"auth", "handler"} => q.slot

(* What QuietAfterDrain asks of a request.                                    *)
Quiet(q) == Gated(q.kind) /\ q.pc \notin {"idle", "arrive", "expire", "begin"} => q.late

AdmissionInv ==
    /\ ControlTypes /\ req \in [Requests -> Reqs]
    /\ \A r \in Requests : RequestFits(req[r])
    /\ active = Cardinality(Guards)
    /\ slots = Cardinality(Holders) /\ slots <= SlotLimit
    /\ logins <= used /\ logins <= AuthLimit
    /\ drained => \A r \in Requests : Quiet(req[r])

Flag(b) == IF b THEN 1 ELSE 0

LEMMA LimitFacts == AuthLimit \in Nat \ {0} /\ SlotLimit \in Nat \ {0} /\ IsFiniteSet(Requests)
BY AdmissionConstants

LEMMA Counts ==
    IsFiniteSet(Guards) /\ IsFiniteSet(Holders)
    /\ Cardinality(Guards) \in Nat /\ Cardinality(Holders) \in Nat
<1>1. Guards \in SUBSET Requests /\ Holders \in SUBSET Requests  BY DEF Guards, Holders
<1>2. IsFiniteSet(Guards) /\ IsFiniteSet(Holders)  BY <1>1, LimitFacts, FS_Subset
<1> QED BY <1>2, FS_CardinalityType

(* One element more or less, or as before.                                    *)
LEMMA Recount ==
    ASSUME NEW S, IsFiniteSet(S), NEW r, NEW before \in BOOLEAN, NEW after \in BOOLEAN,
           (r \in S) = before
    PROVE  Cardinality(IF after THEN S \cup {r} ELSE S \ {r})
              = Cardinality(S) + Flag(after) - Flag(before)
<1>1. Cardinality(S) \in Nat  BY FS_CardinalityType
<1>2. Cardinality(S \cup {r}) = IF r \in S THEN Cardinality(S) ELSE Cardinality(S) + 1
  BY FS_AddElement
<1>3. Cardinality(S \ {r}) = IF r \in S THEN Cardinality(S) - 1 ELSE Cardinality(S)
  BY FS_RemoveElement
<1>4. CASE after  BY <1>1, <1>2, <1>4 DEF Flag
<1>5. CASE ~after  BY <1>1, <1>3, <1>5 DEF Flag
<1> QED BY <1>4, <1>5

(* A step of one request, from what becomes of it and of the counters.        *)
LEMMA RequestMoves ==
    ASSUME AdmissionInv, NEW r \in Requests, NEW q \in Reqs, req' = [req EXCEPT ![r] = q],
           RequestFits(q), ControlTypes',
           active' = active + Flag(q.guard) - Flag(req[r].guard),
           slots' = slots + Flag(q.slot) - Flag(req[r].slot), slots' <= SlotLimit,
           logins' <= used' /\ logins' <= AuthLimit,
           drained' => drained, Quiet(req[r]) \/ ~drained' => Quiet(q) \/ ~drained'
    PROVE  AdmissionInv'
<1>0. req \in [Requests -> Reqs] /\ active = Cardinality(Guards) /\ slots = Cardinality(Holders)
  BY DEF AdmissionInv
<1>1. req' \in [Requests -> Reqs] /\ req'[r] = q  BY <1>0
<1>2. \A s \in Requests : s # r => req'[s] = req[s]  BY <1>0
<1>3. \A s \in Requests : RequestFits(req'[s])  BY <1>1, <1>2 DEF AdmissionInv
<1>4. q.guard \in BOOLEAN /\ q.slot \in BOOLEAN /\ req[r].guard \in BOOLEAN /\ req[r].slot \in BOOLEAN
  BY <1>0 DEF Reqs
<1>5. Guards' = IF q.guard THEN Guards \cup {r} ELSE Guards \ {r}  BY <1>1, <1>2 DEF Guards
<1>6. Holders' = IF q.slot THEN Holders \cup {r} ELSE Holders \ {r}  BY <1>1, <1>2 DEF Holders
<1>7. Cardinality(Guards)' = Cardinality(Guards) + Flag(q.guard) - Flag(req[r].guard)
  <2>1. (r \in Guards) = req[r].guard  BY <1>4 DEF Guards
  <2> QED BY <1>4, <1>5, <2>1, Counts, Recount
<1>8. Cardinality(Holders)' = Cardinality(Holders) + Flag(q.slot) - Flag(req[r].slot)
  <2>1. (r \in Holders) = req[r].slot  BY <1>4 DEF Holders
  <2> QED BY <1>4, <1>6, <2>1, Counts, Recount
<1>9. active' = Cardinality(Guards)' /\ slots' = Cardinality(Holders)'  BY <1>0, <1>7, <1>8
<1>10. drained' => \A s \in Requests : Quiet(req'[s])
  BY <1>1, <1>2 DEF AdmissionInv
<1> QED BY <1>1, <1>3, <1>9, <1>10 DEF AdmissionInv

(* A step that leaves the requests alone.                                     *)
LEMMA RequestsRest ==
    ASSUME AdmissionInv, UNCHANGED <<req, active, slots>>, ControlTypes',
           logins' <= used' /\ logins' <= AuthLimit,
           drained' => drained \/ active = 0
    PROVE  AdmissionInv'
<1>1. Guards' = Guards /\ Holders' = Holders  BY DEF Guards, Holders
<1>2. ASSUME active = 0 PROVE \A r \in Requests : Quiet(req[r])
  <2>1. Guards = {}  BY <1>2, Counts, FS_EmptySet DEF AdmissionInv
  <2>2. \A r \in Requests : ~req[r].guard  BY <2>1 DEF Guards
  <2>3. \A r \in Requests : req[r].pc \in Steps /\ RequestFits(req[r])
    BY DEF AdmissionInv, Reqs
  <2> QED BY <2>2, <2>3 DEF RequestFits, Quiet, Steps, Inside
<1> QED BY <1>1, <1>2 DEF AdmissionInv

(* Leaving gives back what the request holds, whatever that is.               *)
LEMMA Leaving ==
    ASSUME AdmissionInv, NEW r \in Requests, Leave(r), UNCHANGED <<saved, local, drained, server>>,
           used' \in 0 .. AuthLimit + 1, logins' \in 0 .. AuthLimit + 1,
           logins' <= used' /\ logins' <= AuthLimit
    PROVE  AdmissionInv'
<1>0. req \in [Requests -> Reqs] /\ ControlTypes /\ active \in Nat /\ slots \in Nat /\ slots <= SlotLimit
  BY Counts DEF AdmissionInv
<1>1. /\ Resting \in Reqs /\ ~Resting.guard /\ ~Resting.slot /\ RequestFits(Resting)
      /\ Quiet(Resting)
  BY DEF Resting, Reqs, Steps, RequestFits, Quiet, Gated, Inside
<1>2. req[r].guard \in BOOLEAN /\ req[r].slot \in BOOLEAN  BY <1>0 DEF Reqs
<1>3. active' = active + Flag(Resting.guard) - Flag(req[r].guard)
  BY <1>0, <1>1, <1>2 DEF Leave, Flag
<1>4. slots' = slots + Flag(Resting.slot) - Flag(req[r].slot) /\ slots' <= SlotLimit
  BY <1>0, <1>1, <1>2, LimitFacts DEF Leave, Flag
<1>5. op' \in Calls  BY <1>0 DEF Leave, ControlTypes, Calls
<1>6. ControlTypes'  BY <1>0, <1>5 DEF ControlTypes
<1>7. req' = [req EXCEPT ![r] = Resting]  BY DEF Leave
<1> QED BY <1>1, <1>3, <1>4, <1>6, <1>7, RequestMoves

(* Going on with the same guard and slot.                                     *)
LEMMA GoingOn ==
    ASSUME AdmissionInv, NEW r \in Requests, NEW q \in Reqs, req' = [req EXCEPT ![r] = q],
           RequestFits(q), q.guard = req[r].guard, q.slot = req[r].slot,
           UNCHANGED <<active, slots>>, ControlTypes',
           logins' <= used' /\ logins' <= AuthLimit,
           drained' => drained, Quiet(req[r]) => Quiet(q)
    PROVE  AdmissionInv'
<1>0. active \in Nat /\ slots \in Nat /\ slots <= SlotLimit  BY Counts DEF AdmissionInv
<1>1. Flag(q.guard) \in Nat /\ Flag(q.slot) \in Nat  BY DEF Flag
<1>2. /\ active' = active + Flag(q.guard) - Flag(req[r].guard)
      /\ slots' = slots + Flag(q.slot) - Flag(req[r].slot) /\ slots' <= SlotLimit
  BY <1>0, <1>1
<1> QED BY <1>2, RequestMoves

(* The next place of a request that keeps what it holds.                      *)
LEMMA Moving ==
    ASSUME AdmissionInv, NEW r \in Requests, NEW pc \in Steps, To(r, pc),
           UNCHANGED <<saved, local, drained, server>>,
           used' \in 0 .. AuthLimit + 1, logins' \in 0 .. AuthLimit + 1,
           logins' <= used' /\ logins' <= AuthLimit,
           \/ req[r].pc = "arrive" /\ pc \in {"expire", "begin"}
           \/ req[r].pc = "limits" /\ pc = (IF req[r].kind = "developer" THEN "slot" ELSE "auth")
           \/ req[r].pc = "auth" /\ pc = "handler"
    PROVE  AdmissionInv'
<1> DEFINE q == [req[r] EXCEPT !.pc = pc]
<1>0. req \in [Requests -> Reqs] /\ ControlTypes /\ RequestFits(req[r])  BY DEF AdmissionInv
<1>1. req[r] \in Reqs  BY <1>0
<1>2. /\ q \in Reqs /\ q.pc = pc /\ q.kind = req[r].kind /\ q.guard = req[r].guard
      /\ q.slot = req[r].slot /\ q.late = req[r].late
  BY <1>1 DEF Reqs
<1>3. req' = [req EXCEPT ![r] = q] /\ UNCHANGED <<active, slots, op>>  BY <1>0 DEF To
<1> HIDE DEF q
<1>4. RequestFits(q)  BY <1>0, <1>2 DEF RequestFits, Inside, Gated
<1>5. Quiet(req[r]) => Quiet(q)  BY <1>2 DEF Quiet
<1>6. ControlTypes'  BY <1>0, <1>3 DEF ControlTypes
<1>7. drained' => drained  OBVIOUS
<1> QED BY <1>2, <1>3, <1>4, <1>5, <1>6, <1>7, GoingOn

(* The facts about the counters that every step of a request starts from.     *)
LEMMA CounterFacts ==
    ASSUME AdmissionInv
    PROVE  /\ used \in 0 .. AuthLimit + 1 /\ logins \in 0 .. AuthLimit + 1
           /\ logins <= used /\ logins <= AuthLimit
           /\ active \in Nat /\ slots \in Nat /\ slots <= SlotLimit
BY Counts DEF AdmissionInv, ControlTypes

LEMMA ArriveStep ==
    ASSUME AdmissionInv, NEW r \in Requests, NEW kind \in Kinds, Arrive(r, kind)
    PROVE  AdmissionInv'
<1> DEFINE q == [Resting EXCEPT !.kind = kind, !.pc = IF Gated(kind) THEN "arrive" ELSE "auth"]
<1>0. req[r] \in Reqs /\ RequestFits(req[r]) /\ req[r].pc = "idle" /\ ControlTypes
  BY DEF AdmissionInv, Arrive
<1>1. /\ q \in Reqs /\ q.kind = kind /\ q.guard = FALSE /\ q.slot = FALSE
      /\ q.pc = IF Gated(kind) THEN "arrive" ELSE "auth"
  BY DEF Resting, Reqs, Steps
<1>2. req' = [req EXCEPT ![r] = q]  BY DEF Arrive
<1> HIDE DEF q
<1>3. RequestFits(q)  BY <1>1 DEF RequestFits, Inside, Gated
<1>4. Quiet(q)  BY <1>1 DEF Quiet
<1>5. req[r].guard = FALSE /\ req[r].slot = FALSE  BY <1>0 DEF RequestFits, Inside, Reqs
<1>6. UNCHANGED <<active, slots>> /\ ControlTypes' /\ (drained' => drained)
  BY <1>0 DEF Arrive, ControlTypes
<1>7. logins' <= used' /\ logins' <= AuthLimit  BY CounterFacts DEF Arrive
<1> QED BY <1>1, <1>2, <1>3, <1>4, <1>5, <1>6, <1>7, GoingOn

LEMMA ReadGateStep ==
    ASSUME AdmissionInv, NEW r \in Requests, ReadGate(r)
    PROVE  AdmissionInv'
<1>1. /\ req[r].pc = "arrive" /\ UNCHANGED <<saved, local, drained, used, logins, server>>
      /\ To(r, "expire") \/ To(r, "begin") \/ Leave(r)
  BY DEF ReadGate
<1>2. /\ used' \in 0 .. AuthLimit + 1 /\ logins' \in 0 .. AuthLimit + 1
      /\ logins' <= used' /\ logins' <= AuthLimit
  BY <1>1, CounterFacts
<1>3. ASSUME To(r, "expire") PROVE AdmissionInv'
  <2>1. "expire" \in Steps  BY DEF Steps
  <2> QED BY <1>1, <1>2, <1>3, <2>1, Moving
<1>4. ASSUME To(r, "begin") PROVE AdmissionInv'
  <2>1. "begin" \in Steps  BY DEF Steps
  <2> QED BY <1>1, <1>2, <1>4, <2>1, Moving
<1>5. ASSUME Leave(r) PROVE AdmissionInv'  BY <1>1, <1>2, <1>5, Leaving
<1> QED BY <1>1, <1>3, <1>4, <1>5

LEMMA ReplaceExpiredStep ==
    ASSUME AdmissionInv, NEW r \in Requests, ReplaceExpired(r)
    PROVE  AdmissionInv'
<1> DEFINE q == [req[r] EXCEPT !.pc = "begin"]
<1>0. /\ req \in [Requests -> Reqs] /\ req[r] \in Reqs /\ RequestFits(req[r])
      /\ req[r].pc = "expire" /\ ControlTypes
  BY DEF AdmissionInv, ReplaceExpired
<1>1. /\ q \in Reqs /\ q.pc = "begin" /\ q.kind = req[r].kind /\ q.guard = req[r].guard
      /\ q.slot = req[r].slot
  BY <1>0 DEF Reqs, Steps
<1>2. req' = [req EXCEPT ![r] = q]  BY <1>0 DEF ReplaceExpired
<1> HIDE DEF q
<1>3. RequestFits(q) /\ Quiet(q)  BY <1>0, <1>1 DEF RequestFits, Inside, Quiet
<1>4. local' = IdleState /\ drained' \in BOOLEAN /\ (drained' => drained)
  BY <1>0 DEF ReplaceExpired, ApplyLocal, ControlTypes
<1>5. ControlTypes'
  BY <1>0, <1>4 DEF ReplaceExpired, ControlTypes, IdleState, States, Phases
<1>6. UNCHANGED <<active, slots>> /\ logins' <= used' /\ logins' <= AuthLimit
  BY CounterFacts DEF ReplaceExpired
<1> QED BY <1>1, <1>2, <1>3, <1>4, <1>5, <1>6, GoingOn

(* The guard is counted in the same step that lets the request in.            *)
LEMMA BeginStep ==
    ASSUME AdmissionInv, NEW r \in Requests, Begin(r)
    PROVE  AdmissionInv'
<1> DEFINE q == [req[r] EXCEPT !.pc = "limits", !.guard = TRUE, !.late = drained]
<1>0. /\ req \in [Requests -> Reqs] /\ req[r] \in Reqs /\ RequestFits(req[r])
      /\ req[r].pc = "begin" /\ ControlTypes
  BY DEF AdmissionInv, Begin
<1>00. drained \in BOOLEAN  BY <1>0 DEF ControlTypes
<1>1. /\ q \in Reqs /\ q.pc = "limits" /\ q.kind = req[r].kind /\ q.guard = TRUE
      /\ q.slot = req[r].slot /\ q.late = drained
  BY <1>0, <1>00 DEF Reqs, Steps
<1>2. req' = [req EXCEPT ![r] = q]  BY <1>0 DEF Begin
<1> HIDE DEF q
<1>3. req[r].guard = FALSE /\ req[r].slot = FALSE  BY <1>0 DEF RequestFits, Inside, Reqs
<1>4. RequestFits(q)  BY <1>1, <1>3 DEF RequestFits, Inside
<1>5. drained' = drained /\ (Quiet(q) \/ ~drained)  BY <1>1 DEF Quiet, Begin
<1>6. active' = active + Flag(q.guard) - Flag(req[r].guard)
  BY <1>1, <1>3, CounterFacts DEF Flag, Begin
<1>7. slots' = slots + Flag(q.slot) - Flag(req[r].slot) /\ slots' <= SlotLimit
  BY <1>1, <1>3, CounterFacts DEF Flag, Begin
<1>8. ControlTypes' /\ logins' <= used' /\ logins' <= AuthLimit
  BY <1>0, CounterFacts DEF Begin, ControlTypes
<1> QED BY <1>1, <1>2, <1>4, <1>5, <1>6, <1>7, <1>8, RequestMoves

LEMMA PublicLimitsStep ==
    ASSUME AdmissionInv, NEW r \in Requests, PublicLimits(r)
    PROVE  AdmissionInv'
<1> DEFINE next == IF req[r].kind = "developer" THEN "slot" ELSE "auth"
<1>1. /\ req[r].pc = "limits" /\ UNCHANGED <<saved, local, drained, used, logins, server>>
      /\ To(r, next) \/ Leave(r)
  BY DEF PublicLimits, PublicLimit
<1>2. /\ used' \in 0 .. AuthLimit + 1 /\ logins' \in 0 .. AuthLimit + 1
      /\ logins' <= used' /\ logins' <= AuthLimit
  BY <1>1, CounterFacts
<1>3. next \in Steps  BY DEF Steps
<1>4. ASSUME To(r, next) PROVE AdmissionInv'  BY <1>1, <1>2, <1>3, <1>4, Moving
<1>5. ASSUME Leave(r) PROVE AdmissionInv'  BY <1>1, <1>2, <1>5, Leaving
<1> QED BY <1>1, <1>4, <1>5

(* A slot is taken only below the limit.                                      *)
LEMMA TakeSlotStep ==
    ASSUME AdmissionInv, NEW r \in Requests, TakeSlot(r)
    PROVE  AdmissionInv'
<1>1. req[r].pc = "slot" /\ UNCHANGED <<saved, local, drained, used, logins, server>>
  BY DEF TakeSlot
<1>2. /\ used' \in 0 .. AuthLimit + 1 /\ logins' \in 0 .. AuthLimit + 1
      /\ logins' <= used' /\ logins' <= AuthLimit
  BY <1>1, CounterFacts
<1>3. ASSUME Leave(r) PROVE AdmissionInv'  BY <1>1, <1>2, <1>3, Leaving
<1>4. ASSUME SlotFree, slots' = slots + 1, UNCHANGED <<active, op>>,
             req' = [req EXCEPT ![r].pc = "auth", ![r].slot = TRUE]
      PROVE AdmissionInv'
  <2> DEFINE q == [req[r] EXCEPT !.pc = "auth", !.slot = TRUE]
  <2>0. /\ req \in [Requests -> Reqs] /\ req[r] \in Reqs /\ RequestFits(req[r])
        /\ ControlTypes
    BY DEF AdmissionInv
  <2>1. /\ q \in Reqs /\ q.pc = "auth" /\ q.kind = req[r].kind /\ q.guard = req[r].guard
        /\ q.slot = TRUE /\ q.late = req[r].late
    BY <2>0 DEF Reqs, Steps
  <2>2. req' = [req EXCEPT ![r] = q]  BY <1>4, <2>0
  <2> HIDE DEF q
  <2>3. req[r].slot = FALSE  BY <1>1, <2>0 DEF RequestFits, Reqs
  <2>4. RequestFits(q)  BY <1>1, <2>0, <2>1 DEF RequestFits, Inside
  <2>5. (drained' => drained) /\ (Quiet(req[r]) => Quiet(q))  BY <1>1, <2>1 DEF Quiet
  <2>6. active' = active + Flag(q.guard) - Flag(req[r].guard)
    <3>1. Flag(q.guard) = Flag(req[r].guard) /\ Flag(q.guard) \in Nat  BY <2>1 DEF Flag
    <3> QED BY <1>4, <3>1, CounterFacts
  <2>7. slots' = slots + Flag(q.slot) - Flag(req[r].slot) /\ slots' <= SlotLimit
    BY <1>4, <2>1, <2>3, CounterFacts, LimitFacts DEF Flag, SlotFree
  <2>8. ControlTypes'  BY <1>1, <1>4, <2>0 DEF ControlTypes
  <2> QED BY <1>2, <2>1, <2>2, <2>4, <2>5, <2>6, <2>7, <2>8, RequestMoves
<1> QED BY <1>3, <1>4 DEF TakeSlot

(* A sign-in that is let through has been counted.                            *)
LEMMA AuthorizeStep ==
    ASSUME AdmissionInv, NEW r \in Requests, Authorize(r)
    PROVE  AdmissionInv'
<1>0. req \in [Requests -> Reqs] /\ AuthLimit \in Nat \ {0}  BY LimitFacts DEF AdmissionInv
<1>1. req[r].pc = "auth" /\ UNCHANGED <<saved, local, drained, server>>  BY DEF Authorize
<1>2. logins' = IF req'[r].pc = "handler" /\ req[r].kind = "login" /\ logins <= AuthLimit
                THEN logins + 1 ELSE logins
  BY DEF Authorize
<1>3. "handler" \in Steps  BY DEF Steps
<1>4. ASSUME Leave(r), used' = used \/ used' = (IF used <= AuthLimit THEN used + 1 ELSE used)
      PROVE AdmissionInv'
  <2>1. req'[r].pc = "idle"  BY <1>0, <1>4 DEF Leave, Resting
  <2>2. logins' = logins  BY <1>2, <2>1
  <2>3. /\ used' \in 0 .. AuthLimit + 1 /\ logins' \in 0 .. AuthLimit + 1
        /\ logins' <= used' /\ logins' <= AuthLimit
    BY <1>0, <1>4, <2>2, CounterFacts
  <2> QED BY <1>1, <1>4, <2>3, Leaving
<1>5. ASSUME To(r, "handler"),
             \/ req[r].kind # "login" /\ used' = used
             \/ used + 1 <= AuthLimit /\ used' = used + 1
      PROVE AdmissionInv'
  <2>1. /\ used' \in 0 .. AuthLimit + 1 /\ logins' \in 0 .. AuthLimit + 1
        /\ logins' <= used' /\ logins' <= AuthLimit
    BY <1>0, <1>2, <1>5, CounterFacts
  <2> QED BY <1>1, <1>3, <1>5, <2>1, Moving
<1>6. CASE req[r].kind = "login"
  <2>1. AuthLimitCheck(r)  BY <1>6 DEF Authorize
  <2>2. CASE used + 1 <= AuthLimit /\ To(r, "handler") /\ used' = (IF used <= AuthLimit THEN used + 1 ELSE used)
    <3>1. used' = used + 1  BY <1>0, <2>2, CounterFacts
    <3> QED BY <1>5, <2>2, <3>1
  <2>3. CASE Leave(r) /\ used' = (IF used <= AuthLimit THEN used + 1 ELSE used)  BY <1>4, <2>3
  <2>4. CASE Leave(r) /\ used' = used  BY <1>4, <2>4
  <2> QED BY <2>1, <2>2, <2>3, <2>4 DEF AuthLimitCheck
<1>7. CASE req[r].kind # "login"
  <2>1. (To(r, "handler") \/ Leave(r)) /\ used' = used  BY <1>7 DEF Authorize
  <2> QED BY <1>4, <1>5, <1>7, <2>1
<1> QED BY <1>6, <1>7

LEMMA EndStep ==
    ASSUME AdmissionInv, NEW r \in Requests, Answer(r) \/ Disconnect(r)
    PROVE  AdmissionInv'
<1>1. Leave(r) /\ UNCHANGED <<saved, local, drained, used, logins, server>>
  BY DEF Answer, Disconnect
<1>2. /\ used' \in 0 .. AuthLimit + 1 /\ logins' \in 0 .. AuthLimit + 1
      /\ logins' <= used' /\ logins' <= AuthLimit
  BY <1>1, CounterFacts
<1> QED BY <1>1, <1>2, Leaving

LEMMA RequestStep ==
    ASSUME AdmissionInv, NEW r \in Requests, Request(r)
    PROVE  AdmissionInv'
BY ArriveStep, ReadGateStep, ReplaceExpiredStep, BeginStep, PublicLimitsStep, TakeSlotStep,
   AuthorizeStep, EndStep DEF Request

(* The operator's calls leave the requests alone; a drain answers drained     *)
(* when no guard is held.                                                     *)
LEMMA OperatorTypes ==
    ASSUME AdmissionInv,
           OperatorStep \/ \E phase \in Phases, drain \in BOOLEAN : OperatorCalls(phase, drain)
    PROVE  ControlTypes' /\ (drained' => drained \/ active = 0) /\ UnchangedButOp
<1> DEFINE steady == ControlTypes' /\ (drained' => drained \/ active = 0) /\ UnchangedButOp
<1>0. ControlTypes  BY DEF AdmissionInv
<1>1. op \in Calls /\ local \in States /\ saved \in SavedStates /\ drained \in BOOLEAN
  BY <1>0 DEF ControlTypes
<1>2. OpIdle \in Calls /\ IdleState \in States  BY DEF OpIdle, Calls, IdleState, States, Phases
<1>3. /\ op.phase \in Phases
      /\ op.pc \in {"idle", "previous", "expire", "persist", "apply", "count", "check", "arm", "parked"}
  BY <1>1 DEF Calls
<1>4. \A pc \in {"expire", "persist", "apply", "count", "check", "arm", "parked"} :
         [op EXCEPT !.pc = pc] \in Calls
  BY <1>1 DEF Calls
<1>5. [phase |-> op.phase, expired |-> FALSE] \in States \cap SavedStates
  BY <1>3 DEF States, SavedStates
<1>6. ASSUME NEW phase \in Phases, NEW drain \in BOOLEAN, OperatorCalls(phase, drain) PROVE steady
  <2>1. op' \in Calls  BY <1>6 DEF OperatorCalls, Calls
  <2> QED BY <1>0, <1>6, <2>1 DEF OperatorCalls, UnchangedButOp, ControlTypes
<1>7. ASSUME ReadPrevious PROVE steady
  <2>1. op' \in Calls  BY <1>4, <1>7 DEF ReadPrevious
  <2> QED BY <1>0, <1>7, <2>1 DEF ReadPrevious, UnchangedButOp, ControlTypes
<1>8. ASSUME ReplacePrevious PROVE steady
  <2>1. op' \in Calls  BY <1>4, <1>8 DEF ReplacePrevious
  <2>2. local' = IdleState /\ drained' \in BOOLEAN /\ (drained' => drained)
    BY <1>1, <1>8 DEF ReplacePrevious, ApplyLocal
  <2> QED BY <1>0, <1>2, <1>8, <2>1, <2>2 DEF ReplacePrevious, UnchangedButOp, ControlTypes
<1>9. ASSUME Persist PROVE steady
  <2>1. op' \in Calls  BY <1>2, <1>4, <1>9 DEF Persist
  <2>2. saved' \in SavedStates  BY <1>1, <1>5, <1>9 DEF Persist
  <2> QED BY <1>0, <1>9, <2>1, <2>2 DEF Persist, UnchangedButOp, ControlTypes
<1>10. ASSUME ApplyState PROVE steady
  <2>1. op' \in Calls  BY <1>2, <1>4, <1>10 DEF ApplyState
  <2>2. local' \in States /\ drained' \in BOOLEAN /\ (drained' => drained)
    BY <1>1, <1>5, <1>10 DEF ApplyState, ApplyLocal
  <2> QED BY <1>0, <1>10, <2>1, <2>2 DEF ApplyState, UnchangedButOp, ControlTypes
<1>11. ASSUME LookAtCount PROVE steady
  <2>1. op' \in Calls  BY <1>2, <1>4, <1>11 DEF LookAtCount
  <2>2. drained' \in BOOLEAN /\ (drained' => drained \/ active = 0)
    BY <1>1, <1>11 DEF LookAtCount, Blocking
  <2> QED BY <1>0, <1>11, <2>1, <2>2 DEF LookAtCount, UnchangedButOp, ControlTypes
<1>12. ASSUME CreateNotified \/ DrainTimesOut PROVE steady
  <2>1. op' \in Calls  BY <1>2, <1>4, <1>12 DEF CreateNotified, DrainTimesOut
  <2> QED BY <1>0, <1>12, <2>1 DEF CreateNotified, DrainTimesOut, UnchangedButOp, ControlTypes
<1> QED BY <1>6, <1>7, <1>8, <1>9, <1>10, <1>11, <1>12 DEF OperatorStep, DrainStep

LEMMA OperatorMoves ==
    ASSUME AdmissionInv,
           OperatorStep \/ \E phase \in Phases, drain \in BOOLEAN : OperatorCalls(phase, drain)
    PROVE  AdmissionInv'
<1>1. ControlTypes' /\ (drained' => drained \/ active = 0) /\ UnchangedButOp  BY OperatorTypes
<1>2. UNCHANGED <<req, active, slots>> /\ logins' <= used' /\ logins' <= AuthLimit
  BY <1>1, CounterFacts DEF UnchangedButOp
<1> QED BY <1>1, <1>2, RequestsRest

(* Nothing of a process survives it.                                          *)
LEMMA ExitStep ==
    ASSUME AdmissionInv, Exit
    PROVE  AdmissionInv'
<1>0. ControlTypes /\ SlotLimit \in Nat  BY LimitFacts DEF AdmissionInv
<1>1. Resting \in Reqs /\ RequestFits(Resting) /\ ~Resting.guard /\ ~Resting.slot
  BY DEF Resting, Reqs, Steps, RequestFits, Gated, Inside
<1>2. req' = [r \in Requests |-> Resting]  BY DEF Exit
<1>3. Guards' = {} /\ Holders' = {}  BY <1>1, <1>2 DEF Guards, Holders
<1>4. Cardinality(Guards)' = 0 /\ Cardinality(Holders)' = 0  BY <1>3, FS_EmptySet
<1>5. ControlTypes'
  <2>1. OpIdle \in Calls /\ IdleState \in States  BY DEF OpIdle, Calls, IdleState, States, Phases
  <2> QED BY <1>0, <2>1 DEF Exit, ControlTypes
<1>6. active' = 0 /\ slots' = 0 /\ drained' = FALSE /\ logins' <= used' /\ logins' <= AuthLimit
  BY CounterFacts DEF Exit
<1>7. req' \in [Requests -> Reqs] /\ \A r \in Requests : RequestFits(req'[r])  BY <1>1, <1>2
<1> QED BY <1>0, <1>4, <1>5, <1>6, <1>7 DEF AdmissionInv

LEMMA EnvironmentStep ==
    ASSUME AdmissionInv, Environment
    PROVE  AdmissionInv'
<1>0. ControlTypes /\ AuthLimit \in Nat \ {0}  BY LimitFacts DEF AdmissionInv
<1>1. saved \in SavedStates /\ local \in States  BY <1>0 DEF ControlTypes
<1>2. ASSUME WindowCloses PROVE AdmissionInv'
  <2>1. ControlTypes'  BY <1>0, <1>2 DEF WindowCloses, UnchangedButTime, ControlTypes
  <2>2. /\ UNCHANGED <<req, active, slots>> /\ logins' <= used' /\ logins' <= AuthLimit
        /\ drained' => drained \/ active = 0
    BY <1>0, <1>2 DEF WindowCloses, UnchangedButTime
  <2> QED BY <2>1, <2>2, RequestsRest
<1>3. ASSUME StateExpires PROVE AdmissionInv'
  <2>1. local' \in States /\ saved' \in SavedStates
    BY <1>1, <1>3 DEF StateExpires, States, SavedStates
  <2>2. ControlTypes'  BY <1>0, <1>3, <2>1 DEF StateExpires, UnchangedButTime, ControlTypes
  <2>3. /\ UNCHANGED <<req, active, slots>> /\ logins' <= used' /\ logins' <= AuthLimit
        /\ drained' => drained \/ active = 0
    BY <1>3, CounterFacts DEF StateExpires, UnchangedButTime
  <2> QED BY <2>2, <2>3, RequestsRest
<1>4. ASSUME Shutdown PROVE AdmissionInv'
  <2>1. ControlTypes'  BY <1>0, <1>4 DEF Shutdown, UnchangedButTime, ControlTypes
  <2>2. /\ UNCHANGED <<req, active, slots>> /\ logins' <= used' /\ logins' <= AuthLimit
        /\ drained' => drained \/ active = 0
    BY <1>4, CounterFacts DEF Shutdown, UnchangedButTime
  <2> QED BY <2>1, <2>2, RequestsRest
<1>5. ASSUME Start PROVE AdmissionInv'
  <2>0. IdleState \in States /\ \A state \in SavedStates : state # NoState => state \in States
    BY DEF IdleState, States, SavedStates, Phases
  <2>1. local' \in States  BY <1>1, <1>5, <2>0 DEF Start
  <2>2. ControlTypes'  BY <1>0, <1>5, <2>1 DEF Start, ControlTypes
  <2>3. /\ UNCHANGED <<req, active, slots>> /\ logins' <= used' /\ logins' <= AuthLimit
        /\ drained' => drained \/ active = 0
    BY <1>5, CounterFacts DEF Start
  <2> QED BY <2>2, <2>3, RequestsRest
<1>6. ASSUME Exit PROVE AdmissionInv'  BY <1>6, ExitStep
<1> QED BY <1>2, <1>3, <1>4, <1>5, <1>6 DEF Environment

LEMMA AdmissionInit == GateInit => AdmissionInv
<1> SUFFICES ASSUME GateInit PROVE AdmissionInv  OBVIOUS
<1>0. AuthLimit \in Nat \ {0} /\ SlotLimit \in Nat \ {0}  BY LimitFacts
<1>1. Resting \in Reqs /\ RequestFits(Resting) /\ ~Resting.guard /\ ~Resting.slot
  BY DEF Resting, Reqs, Steps, RequestFits, Gated, Inside
<1>2. Guards = {} /\ Holders = {}  BY <1>1 DEF GateInit, Guards, Holders
<1>3. Cardinality(Guards) = 0 /\ Cardinality(Holders) = 0  BY <1>2, FS_EmptySet
<1>4. op \in Calls  BY DEF GateInit, OpIdle, Calls, Phases
<1>9. /\ IdleState \in States
      /\ [phase |-> "announced", expired |-> FALSE] \in States \cap SavedStates
      /\ NoState \in SavedStates
  BY DEF IdleState, States, SavedStates, Phases
<1>5. saved \in SavedStates /\ local \in States  BY <1>9 DEF GateInit
<1>6. 0 \in 0 .. AuthLimit + 1  BY <1>0
<1>7. ControlTypes  BY <1>4, <1>5, <1>6 DEF GateInit, ControlTypes
<1>8. req \in [Requests -> Reqs] /\ \A r \in Requests : RequestFits(req[r])  BY <1>1 DEF GateInit
<1> QED BY <1>0, <1>3, <1>7, <1>8 DEF GateInit, AdmissionInv

LEMMA AdmissionStep == AdmissionInv /\ [GateNext]_gateVars => AdmissionInv'
<1> SUFFICES ASSUME AdmissionInv, [GateNext]_gateVars PROVE AdmissionInv'  OBVIOUS
<1>1. ASSUME NEW r \in Requests, Request(r) PROVE AdmissionInv'  BY <1>1, RequestStep
<1>2. ASSUME OperatorStep \/ \E phase \in Phases, drain \in BOOLEAN : OperatorCalls(phase, drain)
      PROVE AdmissionInv'
  BY <1>2, OperatorMoves
<1>3. ASSUME Environment PROVE AdmissionInv'  BY <1>3, EnvironmentStep
<1>4. ASSUME UNCHANGED gateVars PROVE AdmissionInv'
  BY <1>4 DEF gateVars, AdmissionInv, ControlTypes, Guards, Holders
<1> QED BY <1>1, <1>2, <1>3, <1>4 DEF GateNext

LEMMA AdmissionAlways == GateSpec => []AdmissionInv
BY AdmissionInit, AdmissionStep, PTL DEF GateSpec

(* Once a drain has answered drained, and while the gate stays closed, every  *)
(* public request inside began after the answer: no request that was in       *)
(* progress is left, whatever the interleaving of arrivals with the operator. *)
THEOREM DrainIsQuiet == GateSpec => []QuietAfterDrain
<1>1. AdmissionInv => QuietAfterDrain  BY DEF AdmissionInv, QuietAfterDrain, Quiet
<1> QED BY <1>1, AdmissionAlways, PTL

(* The counter of active requests is the number of guards held, that of the   *)
(* developer slots the number of requests that hold one, and neither limit is *)
(* passed: developer requests inside by the concurrency limit, sign-ins that  *)
(* reach their handler within a window by the limit on attempts.              *)
THEOREM LimitsKept == GateSpec => []LimitsHold
<1>1. ASSUME AdmissionInv PROVE LimitsHold
  <2> DEFINE developers == {r \in Requests : req[r].kind = "developer" /\ req[r].pc \in {"auth", "handler"}}
  <2>1. GateTypeOK
    BY <1>1 DEF AdmissionInv, GateTypeOK, ControlTypes, States, SavedStates, Calls, Reqs,
       Guards, Holders
  <2>2. LoginsAreLimited  BY <1>1 DEF AdmissionInv, LoginsAreLimited
  <2>3. developers \in SUBSET Holders  BY <1>1 DEF AdmissionInv, RequestFits, Holders
  <2>4. Cardinality(developers) <= Cardinality(Holders) /\ Cardinality(developers) \in Nat
    <3> HIDE DEF developers
    <3> QED BY <2>3, Counts, FS_Subset, FS_CardinalityType
  <2>5. SlotsAreLimited
    <3>1. Cardinality(Holders) <= SlotLimit  BY <1>1 DEF AdmissionInv
    <3>2. Cardinality(developers) <= SlotLimit  BY <2>4, <3>1, Counts, LimitFacts
    <3> QED BY <3>2 DEF SlotsAreLimited
  <2> QED BY <2>1, <2>2, <2>5 DEF LimitsHold
<1> QED BY <1>1, AdmissionAlways, PTL
===============================================================================
