----------------------------- MODULE RoutePages -----------------------------
(* The cached pages of the HTTP API: under which key each is kept, which      *)
(* parameters its loader reads, and which other cached pages it is put        *)
(* together from (internal_stats_get and internal_champions_get run the whole *)
(* read path of the part).  RouteCache follows one key through races and      *)
(* faults; this module follows what a payload is about, and how old or how    *)
(* incomplete it can be, through the pages that pages are made of.            *)
EXTENDS Integers, Sequences, FiniteSets

-----------------------------------------------------------------------------
(* Pages.  A page's loads are the parameters that its payload is loaded for   *)
(* (path parameters included); what is applied to the payload after the       *)
(* lookup (paging and search of the directories, the queue shape of recent    *)
(* matches) is not among them.  A handler that reads a parameter and then     *)
(* branches is a page per branch.                                             *)

Tier == {"tierMin", "tierMax"}
Paging == {"page", "perPage"}

Part(page, passes) == [page |-> page, passes |-> passes]

(* canonical_route_cache_url: the key is the path and the sorted query,       *)
(* without the tracking parameters.                                           *)
UrlKeyed(loads) ==
    [byUrl |-> TRUE, key |-> {}, loads |-> loads, parts |-> {}, tolerant |-> FALSE]

(* matches_query_cache_key: the whole query, tracking parameters included. *)
Tracking == {"utm_source"}
QueryKeyed(loads) == [UrlKeyed(loads) EXCEPT !.key = Tracking]

(* A bundle takes a part that does not answer for empty, and is kept so. *)
Bundle(loads, parts) == [UrlKeyed(loads) EXCEPT !.parts = parts, !.tolerant = TRUE]

(* The key is put together from some of the parameters. *)
Keyed(key, loads) == [UrlKeyed(loads) EXCEPT !.byUrl = FALSE, !.key = key]
KeyedBundle(key, loads, parts) == [Keyed(key, loads) EXCEPT !.parts = parts]

(* routes/stats.rs *)
StatsItems == UrlKeyed({"mode", "scope", "limit", "queueId", "championId", "role"} \cup Tier)
StatsQueues == UrlKeyed(Tier)
StatsRegions == UrlKeyed(Tier)
StatsPlatforms == UrlKeyed(Tier)
StatsLoadouts == UrlKeyed({"championId", "limit", "minPlays", "offset"} \cup Tier)
StatsTiers == UrlKeyed({"source"})
StatsTiersSummary == UrlKeyed({})
StatsLeagues == UrlKeyed({})
StatsRankedLeaderboard == UrlKeyed({"tier", "top"})
StatsTierPopulation == UrlKeyed({})
StatsChampionLeaderboard == UrlKeyed({"championId", "limit"})

(* routes/stats/maps.rs *)
StatsMaps == UrlKeyed({"includeUnknown", "limit", "queueId", "scope"} \cup Tier)
StatsChampionMaps == UrlKeyed({"championId", "queueId", "scope"} \cup Tier)
StatsMapDetail == UrlKeyed({"map", "scope"} \cup Tier)
StatsMapComparison == UrlKeyed({"map", "cursor", "limit", "section"} \cup Tier)

(* routes/stats/performance.rs *)
PerformanceMetrics == UrlKeyed({"includeRoles", "metric", "role", "scope"} \cup Tier)
PerformanceByChampion == UrlKeyed({"championId", "metric", "queueId"} \cup Tier)

(* routes/stats/catalog.rs *)
StatsSkins == UrlKeyed({"championId", "limit"} \cup Tier)
StatsBrokenSkins == UrlKeyed({"championId"} \cup Tier)
StatsItemDetail == UrlKeyed({"item", "championId", "role"} \cup Tier)
HourlyMatchCounts == UrlKeyed({"date", "hour", "queueId"} \cup Tier)
StatsTalents == UrlKeyed({"limit"} \cup Tier)
ChampionTalents == UrlKeyed({"championId"} \cup Tier)
StatsCards == UrlKeyed({"limit"} \cup Tier)
ChampionCards == UrlKeyed({"championId", "talentId"} \cup Tier)
CardDetail == UrlKeyed({"championId", "card", "talentId"} \cup Tier)
StatsBaselines == UrlKeyed({"queueId", "role"} \cup Tier)

(* routes/stats/presence.rs *)
Presence == UrlKeyed({})
HourlyPresence == UrlKeyed({"queueId"})
PresenceMatchIds == UrlKeyed({"queueId", "page", "perPage", "limit"})
PresencePlayers == UrlKeyed({"queueId", "page", "perPage", "limit", "sort"})
PresenceDetails == UrlKeyed({"queueId", "cursor", "limit"})

(* An overview whose item list is not limited to the tiers asked for. *)
StatsOverviewMixed ==
    Bundle(Tier, {Part("performance_metrics", Tier), Part("champions_overview", Tier),
                  Part("stats_items", {}), Part("stats_maps", Tier), Part("stats_tiers", {})})

(* routes/stats/summary.rs: tier_query and scoped hand the tiers down. *)
StatsOverview ==
    Bundle(Tier, {Part("performance_metrics", Tier), Part("champions_overview", Tier),
                  Part("stats_items", Tier), Part("stats_maps", Tier), Part("stats_tiers", {})})
StatsPageData ==
    Bundle(Tier, {Part("stats_overview", Tier), Part("stats_baselines", Tier),
                  Part("stats_skins", Tier), Part("stats_broken_skins", Tier)})
StatsLeaderboard == UrlKeyed({"tier", "sort", "order", "limit", "scope", "queueId"} \cup Tier)
StatsTrends == UrlKeyed({"days", "from", "to", "queueId", "region"} \cup Tier)
StatsCharts == UrlKeyed({"from", "to", "limit"} \cup Tier)
StatsChampions == UrlKeyed({"sort", "order", "limit", "scope", "queueId"} \cup Tier)
(* In a scope other than ranked a query with tier bounds is refused. *)
StatsChampionsUnranked == UrlKeyed({"sort", "order", "limit", "scope", "queueId"})

(* routes/champions.rs *)
ChampionsCatalog == UrlKeyed({})
ChampionsOverview == Bundle({"scope"} \cup Tier, {Part("stats_champions", {"scope"} \cup Tier)})
(* In a scope other than ranked tier bounds are checked, not handed down, and *)
(* nothing is limited to them.                                                *)
ChampionsOverviewUnranked == Bundle({"scope"}, {Part("stats_champions_unranked", {"scope"})})
ChampionDetail == UrlKeyed({"championId"} \cup Tier)
ChampionPage ==
    LET champion == {"championId"}
    IN  Bundle(champion, {Part("champion_talents", champion), Part("stats_items", champion),
                          Part("stats_champion_maps", champion), Part("performance_metrics", {}),
                          Part("performance_by_champion", champion)})
(* With tier bounds.  append_bound_query appends them with an ampersand, and  *)
(* the path of the maps has no query to append to: no route has that path,    *)
(* and the maps are empty whatever the cache holds.                           *)
ChampionPageBounded ==
    LET scope == {"championId"} \cup Tier
    IN  Bundle(scope, {Part("champion_talents", scope), Part("stats_items", scope),
                       Part("performance_metrics", Tier), Part("performance_by_champion", scope)})
TalentPage ==
    LET scope == {"championId"} \cup Tier
    IN  Bundle({"talentId"} \cup scope,
               {Part("champion_talents", scope), Part("champion_cards", {"talentId"} \cup scope)})
ChampionTiers == UrlKeyed({})
TopWinrate == Bundle(Tier, {Part("stats_champions", Tier)})

(* routes/matches.rs.  format_match and the list of recent matches use typed  *)
(* keys; the search and the hourly statistics the whole query.                *)
MatchDetail == Keyed({"match"}, {"match"})
RecentMatches == Keyed({"queueId", "limit", "cursor"}, {"queueId", "limit", "cursor"})
MatchSearch ==
    QueryKeyed({"championId", "cursor", "cursorMode", "date", "hour", "queueId", "region",
                "timeZone"} \cup Paging)
DailyPlayers == Keyed({}, {})
HourlyStats == [QueryKeyed({"includePlayers"} \cup Tier) EXCEPT !.parts = {Part("daily_players", {})}]
MatchesOverview ==
    KeyedBundle({"view"} \cup Tier, {"view"} \cup Tier, {Part("hourly_stats", Tier)})

(* routes/players.rs: the directories keep all rows under one key, and search *)
(* and page them after the lookup.                                            *)
PlayersOverview == Keyed({}, {})
PlayerSearch ==
    UrlKeyed({"name", "q", "region", "platform", "cheater", "susOnly", "weirdoOnly",
              "hallOfFameOnly", "dropperOnly", "afkWintradeOnly", "altAccountOnly", "limit",
              "offset", "perPage"} \cup Tier)
BoostedPlayers == Keyed({}, {})
AutomaticAfk == Keyed(Tier, Tier)
WallShooters == Keyed({}, {})
MasterFeeding == Keyed({}, {})
PerformanceDiff == Keyed({"metric"}, {"metric"})
AutomaticAfkDetail == UrlKeyed({"player"} \cup Tier)
PlayerMatches ==
    UrlKeyed({"player", "championId", "from", "to", "queueId", "winStatus", "limit", "offset"})
AltAccountRelations == UrlKeyed({"q"} \cup Paging)

(* The other routers. *)
Parties == UrlKeyed({"kind", "limit", "q", "size"} \cup Paging)
PrivateAccounts == UrlKeyed({"cheater", "q", "suspicious"} \cup Paging)
Changelog == UrlKeyed({"preview"} \cup Paging)
Notifications == UrlKeyed({"limit"})
ActivityBanner == Keyed({}, {})
OperationsStats == UrlKeyed({})
ReferenceList == Keyed({"route"}, {"route"})
ReferenceById == Keyed({"route", "id"}, {"route", "id"})

Pages ==
    [stats_items |-> StatsItems, stats_queues |-> StatsQueues, stats_regions |-> StatsRegions,
     stats_platforms |-> StatsPlatforms, stats_loadouts |-> StatsLoadouts,
     stats_tiers |-> StatsTiers, stats_tiers_summary |-> StatsTiersSummary,
     stats_leagues |-> StatsLeagues, stats_ranked_leaderboard |-> StatsRankedLeaderboard,
     stats_tier_population |-> StatsTierPopulation,
     stats_champion_leaderboard |-> StatsChampionLeaderboard, stats_maps |-> StatsMaps,
     stats_champion_maps |-> StatsChampionMaps, stats_map_detail |-> StatsMapDetail,
     stats_map_comparison |-> StatsMapComparison, performance_metrics |-> PerformanceMetrics,
     performance_by_champion |-> PerformanceByChampion, stats_skins |-> StatsSkins,
     stats_broken_skins |-> StatsBrokenSkins, stats_item_detail |-> StatsItemDetail,
     hourly_match_counts |-> HourlyMatchCounts, stats_talents |-> StatsTalents,
     champion_talents |-> ChampionTalents, stats_cards |-> StatsCards,
     champion_cards |-> ChampionCards, card_detail |-> CardDetail,
     stats_baselines |-> StatsBaselines, presence |-> Presence,
     hourly_presence |-> HourlyPresence, presence_match_ids |-> PresenceMatchIds,
     presence_players |-> PresencePlayers, presence_details |-> PresenceDetails,
     stats_overview |-> StatsOverview, stats_page_data |-> StatsPageData,
     stats_leaderboard |-> StatsLeaderboard, stats_trends |-> StatsTrends,
     stats_charts |-> StatsCharts, stats_champions |-> StatsChampions,
     stats_champions_unranked |-> StatsChampionsUnranked,
     champions_catalog |-> ChampionsCatalog, champions_overview |-> ChampionsOverview,
     champions_overview_unranked |-> ChampionsOverviewUnranked,
     champion_detail |-> ChampionDetail, champion_page |-> ChampionPage,
     champion_page_bounded |-> ChampionPageBounded,
     talent_page |-> TalentPage, champion_tiers |-> ChampionTiers, top_winrate |-> TopWinrate,
     match_detail |-> MatchDetail, recent_matches |-> RecentMatches,
     match_search |-> MatchSearch, daily_players |-> DailyPlayers, hourly_stats |-> HourlyStats,
     matches_overview |-> MatchesOverview, players_overview |-> PlayersOverview,
     player_search |-> PlayerSearch, boosted_players |-> BoostedPlayers,
     automatic_afk |-> AutomaticAfk, wall_shooters |-> WallShooters,
     master_feeding |-> MasterFeeding, performance_diff |-> PerformanceDiff,
     automatic_afk_detail |-> AutomaticAfkDetail, player_matches |-> PlayerMatches,
     alt_account_relations |-> AltAccountRelations, parties |-> Parties,
     private_accounts |-> PrivateAccounts, changelog |-> Changelog,
     notifications |-> Notifications, activity_banner |-> ActivityBanner,
     operations_stats |-> OperationsStats, reference_list |-> ReferenceList,
     reference_by_id |-> ReferenceById]

(* Whether two requests that differ in this parameter have different keys. *)
KeyHolds(page, param) ==
    param \in Pages[page].key \/ (Pages[page].byUrl /\ param \notin Tracking)
=============================================================================
