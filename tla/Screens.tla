------------------------------ MODULE Screens ------------------------------
(* The browser's screens, by what they ask of the worker: which queries a    *)
(* component keeps on the screen, which it waits for before it shows its     *)
(* content, and which changes it offers; and the queries and changes         *)
(* themselves, with the rows they read and write and the cache keys by which *)
(* a change reaches a query.  Workspace runs them.                           *)
(*                                                                           *)
(* One deal, one meeting of it, and one filter per list stand for all; a     *)
(* hook called with no deal puts NoDeal in the key, which no query has.      *)
(* Layout, wording and what is derived from the answers are left out.        *)

D       == "deal"          \* the deal that is open
M       == "meeting"       \* the meeting that is open
NoDeal  == "undefined"

-----------------------------------------------------------------------------
(* The rows of the worker, as finely as the answers tell them apart: a new   *)
(* meeting is in no analysis yet, and an answer that joins the name of a     *)
(* deal does not hear of a deal that begins or ends.                         *)
DealRows    == {"deal", "dealName"}
MeetingRows == {"meeting", "newMeeting", "botSwitch"}

(* A query: its cache key, the rows its answer is read from, and the         *)
(* statuses at which it asks again by itself.  A query that follows asks     *)
(* again whatever the rows say, one that lasts never grows stale.            *)
Query(key, of) ==
  [key |-> key, of |-> of, active |-> {}, follows |-> FALSE, lasts |-> FALSE]

ACTIVE_PIPELINE_STATUSES ==
  {"uploading", "processing", "transcribing", "analyzing"}
ANALYSIS_IN_FLIGHT == {"pending", "running", "processing", "analyzing"}

useDeals           == Query(<<"deals", "all">>, DealRows)
useDealsFound      == Query(<<"deals", "filters">>, DealRows)
useDealsToPick     == Query(<<"deals", "limit 100">>, DealRows)
useDeal            == Query(<<"deals", D>>, DealRows)
useDealMembers     == Query(<<"deals", D, "members">>, {"member"})
useMeetings        == Query(<<"meetings", D>>, MeetingRows)
useMeeting ==
  [Query(<<"meetings", D, M>>, {"meeting", "botSwitch"}) EXCEPT
     !.active = ACTIVE_PIPELINE_STATUSES]
useCalendarMeetings ==    \* joins the name of the deal
  Query(<<"calendar", "meetings">>, MeetingRows \cup {"unassigned", "dealName"})
useUpcomingUnassigned ==
  Query(<<"dashboard", "upcoming-unassigned">>, {"unassigned"})
useBotSessions ==
  [Query(<<"bot-sessions", "any">>, {"bot"}) EXCEPT !.follows = TRUE]
useDealBotSessions ==
  [Query(<<"bot-sessions", D>>, {"bot"}) EXCEPT !.follows = TRUE]
useTranscript      == Query(<<"transcripts", M>>, {"transcript"})
useTranscriptSegments ==
  Query(<<"transcripts", M, "segments">>, {"transcript"})
useAnalyses ==
  [Query(<<"analyses", M>>, {"analysis"}) EXCEPT !.active = ANALYSIS_IN_FLIGHT]
useDealExtractions ==     \* of the deal's meetings, under their titles and dates
  Query(<<"deal-extractions", D>>, {"analysis", "meeting"})
useActionItemCompletions ==
  Query(<<"action-item-completions", D>>, {"tick"})
useDocuments       == Query(<<"documents", D>>, {"document"})
useVdrConnection   == Query(<<"cognivault-connection", D>>, {"share"})
useOrgs            == Query(<<"orgs">>, {"org"})
useSession         == Query(<<"auth", "session">>, {"session"})

(* The deliverables are kept in the cache alone: the query answers with an   *)
(* empty list once and lasts.                                                *)
useDeliverables ==
  [Query(<<"deliverables", D>>, {"deliverable"}) EXCEPT !.lasts = TRUE]

(* The hooks that only combine other hooks.                                  *)
useDealStats     == {useMeetings, useDealExtractions}
useTodayMeetings == {useCalendarMeetings, useBotSessions}

Queries ==
  {useDeals, useDealsFound, useDealsToPick, useDeal, useDealMembers, useMeetings, useMeeting,
   useCalendarMeetings, useUpcomingUnassigned, useBotSessions,
   useDealBotSessions, useTranscript, useTranscriptSegments, useAnalyses,
   useDealExtractions, useActionItemCompletions, useDocuments,
   useVdrConnection, useOrgs, useSession, useDeliverables}

-----------------------------------------------------------------------------
(* A change the user asks for: the rows it writes and the key prefixes       *)
(* that its onSuccess invalidates.                                           *)
Change(name, writes, invalidates) ==
  [name |-> name, writes |-> writes, invalidates |-> invalidates]

useCreateDeal == Change("create deal", {"deal"}, {<<"deals">>})
useUpdateDeal ==
  Change("update deal", {"dealName"}, {<<"deals", D>>, <<"deals">>})
useDeleteDeal == Change("delete deal", {"deal"}, {<<"deals">>})
useAddDealMember ==
  Change("add member", {"member"}, {<<"deals", D, "members">>})
useRemoveDealMember ==
  Change("remove member", {"member"}, {<<"deals", D, "members">>})

useUpdateMeetingList(deal) ==   \* mutant: the calendar is forgotten
  Change("update meeting", {"meeting"},
         {<<"meetings", deal>>, <<"meetings", deal, M>>})

useUpdateMeetingOf(deal) ==
  Change("update meeting", {"meeting"},
         {<<"meetings", deal>>, <<"meetings", deal, M>>,
          <<"calendar", "meetings">>})

(* From the calendar, which has no deal in hand, also for unassigned ones.   *)
useToggleMeetingBot(deal) ==
  Change("toggle bot",
         {"botSwitch", "bot"} \cup (IF deal = NoDeal THEN {"unassigned"} ELSE {}),
         {<<"meetings", deal>>, <<"meetings">>, <<"calendar", "meetings">>,
          <<"bot-sessions">>})
useConfirmMeetingUpload ==
  Change("confirm recording", {"newMeeting"}, {<<"meetings">>})
useScheduleBot ==
  Change("schedule bot", {"bot"},
         {<<"bot-sessions">>, <<"calendar", "meetings">>, <<"meetings">>})
useConfirmDocumentUpload ==
  Change("confirm document", {"document"}, {<<"documents">>})
useRunAnalysis ==
  Change("run analysis", {"analysis"}, {<<"analyses", M>>})
useRerunAnalysis ==
  Change("rerun analysis", {"analysis"}, {<<"analyses", M>>})
useToggleActionItem ==
  Change("tick action", {"tick"}, {<<"action-item-completions", D>>})
useUpdateVdrShareScopes ==
  Change("share scopes", {"share"}, {<<"cognivault-connection", D>>})
useDisconnectVdr ==
  Change("disconnect", {"share"}, {<<"cognivault-connection", D>>})

(* The dialog updates the meeting with no deal in hand, and then invalidates *)
(* every list of meetings itself.                                            *)
AssignMeeting ==
  Change("assign meeting", {"meeting", "unassigned"},
         useUpdateMeetingOf(NoDeal).invalidates \cup
         {<<"calendar", "meetings">>, <<"meetings">>,
          <<"dashboard", "upcoming-unassigned">>})

(* A question or a deliverable asked for invalidates no query.               *)
useAskQuestion        == Change("ask the deal", {}, {<<"qa", D>>})
useMeetingAskQuestion == Change("ask the meeting", {}, {})
useGenerateDeliverable == Change("generate", {"deliverable"}, {})

(* The refresh of the calendar only asks for a sync and looks again later.   *)
RefreshCalendar ==
  Change("refresh calendar", {}, {<<"calendar", "meetings">>})

-----------------------------------------------------------------------------
(* Components: the queries whose answers a component shows, those it shows a *)
(* spinner for while they load (waits), those without whose answer it shows  *)
(* nothing but the spinner (needs), and the changes it offers; and whether   *)
(* it has the analyses asked for again as long as there are none (expects).  *)
Part(uses, waits, needs, offers) ==
  [uses |-> uses, waits |-> waits, needs |-> needs, offers |-> offers,
   expects |-> FALSE]

Over(parts) ==
  [uses    |-> UNION {p.uses : p \in parts},
   waits   |-> UNION {p.waits : p \in parts},
   needs   |-> UNION {p.needs : p \in parts},
   offers  |-> UNION {p.offers : p \in parts},
   expects |-> \E p \in parts : p.expects]

(* pollWhileActive *)
Expecting(part) == [part EXCEPT !.expects = TRUE]

Shows(queries)  == Part(queries, {}, {}, {})
Awaits(queries) == Part(queries, queries, {}, {})

(* What surrounds every screen. *)
AuthGuard   == Awaits({useSession})
Sidebar     == Shows({useDeals})
Breadcrumbs == Shows({useDeals})
OrgSwitcher == Shows({useOrgs})
Topbar      == Over({Breadcrumbs, OrgSwitcher, Shows({useSession})})
AppLayout   == Over({AuthGuard, Sidebar, Topbar})

(* What surrounds every screen of a deal. *)
LiveBanner           == Shows({useDealBotSessions})
LiveBannerInner      == Shows({useMeeting})
CogniVaultHeaderChip == Awaits({useVdrConnection})
DealLayout ==
  Over({LiveBanner, CogniVaultHeaderChip,
        Shows({useDeal, useDealMembers} \cup useDealStats)})

(* Dialogs. *)
AssignMeetingDialog ==
  Part({useDealsToPick}, {}, {}, {AssignMeeting})
ScheduleBotDialog(deals) ==
  Part({deals, useCalendarMeetings}, {}, {}, {useScheduleBot})
UploadDialog   == Part({}, {}, {}, {useConfirmMeetingUpload})
DocumentUpload == Part({}, {}, {}, {useConfirmDocumentUpload})

(* The dashboard, the deals and the calendar. *)
TodayAgenda    == Awaits(useTodayMeetings)
NeedsAttention == Over({Shows({useUpcomingUnassigned}), AssignMeetingDialog})
DashboardPage ==
  Over({Part({useDeals, useCalendarMeetings}, {useDeals}, {}, {}),
        TodayAgenda, NeedsAttention})
DealsPage      == Awaits({useDealsFound})
CreateDealPage == Part({}, {}, {}, {useCreateDeal})

MonthView == Part({useCalendarMeetings, useBotSessions},
                  {useCalendarMeetings}, {}, {useToggleMeetingBot(NoDeal)})
WeekView   == MonthView
AgendaView == MonthView
CalendarRail == Over({Awaits({useCalendarMeetings}), AssignMeetingDialog})
CalendarPage ==
  Over({MonthView, WeekView, AgendaView, CalendarRail, ScheduleBotDialog(useDealsToPick),
        Shows({useOrgs, useSession}), Part({}, {}, {}, {RefreshCalendar})})

(* The screens of a deal. *)
RecentMeetings == Awaits({useMeetings})
UpcomingCard   == Shows({useMeetings})
LatestInsights ==
  Part({useDealExtractions, useActionItemCompletions}, {}, {},
       {useToggleActionItem})
DealOverviewPage ==
  Over({Part({useDeal}, {}, {useDeal}, {}), RecentMeetings, UpcomingCard,
        LatestInsights})

MeetingRow ==
  Part({useMeetings, useDealExtractions}, {}, {}, {useToggleMeetingBot(D)})
MeetingsTable == MeetingRow
MeetingsPage ==
  Over({Awaits({useMeetings}), MeetingsTable, UploadDialog,
        ScheduleBotDialog(useDeals)})

DocumentList     == Shows({useDocuments})
DocumentsPage    == Over({Awaits({useDocuments}), DocumentList, DocumentUpload})
DeliverablesPage ==
  Part({useDeliverables}, {useDeliverables}, {}, {useGenerateDeliverable})
TeamPage ==
  Part({useDealMembers}, {useDealMembers}, {},
       {useAddDealMember, useRemoveDealMember})

CogniVaultShareCard ==
  Part({useVdrConnection}, {useVdrConnection}, {},
       {useUpdateVdrShareScopes, useDisconnectVdr})
DealSettingsPage ==
  Over({Part({useDeal}, {}, {useDeal}, {useUpdateDeal, useDeleteDeal}),
        CogniVaultShareCard})

ActionCard ==
  Part({useDealExtractions, useActionItemCompletions}, {}, {},
       {useToggleActionItem})
KanbanColumn   == ActionCard
ActionsByOwner == Shows({useDealExtractions})
ActionItemsPage(view) == Over({Awaits({useDealExtractions}), view})

MeetingsRail     == Shows({useMeetings})
DealTranscript   == Part({useTranscript, useTranscriptSegments},
                         {useTranscriptSegments}, {}, {})
ExtractionsRail  == Shows({useDealExtractions})
TranscriptsPage  == Over({MeetingsRail, DealTranscript, ExtractionsRail})

(* The questions. *)
QAChat == Part({}, {}, {}, {useAskQuestion, useMeetingAskQuestion})
DealChatPage ==
  Part({useDeal, useMeetings}, {}, {}, {useAskQuestion, useMeetingAskQuestion})
ChatContent ==
  Part({useDeals, useMeetings}, {useDeals}, {},
       {useAskQuestion, useMeetingAskQuestion})

(* The screens of a meeting; tab is what the chosen tab shows, which expects *)
(* an analysis while the meeting is being processed.                         *)
TranscriptViewer   == Awaits({useTranscript, useTranscriptSegments})
InsightsTabContent == Awaits({useAnalyses})
AnalysisTabContent ==
  Part({useAnalyses}, {useAnalyses}, {}, {useRunAnalysis})
AnalysisPage       == AnalysisTabContent
LiveTranscriptPage == Shows({useMeeting, useDealBotSessions})
MeetingDetailPage(tab) ==
  Over({Part({useMeeting}, {}, {useMeeting}, {useUpdateMeetingOf(D)}), tab})

AppScreens ==
  {DashboardPage, DealsPage, CreateDealPage, CalendarPage, ChatContent,
   Shows({useSession})}

DealScreens ==
  {DealOverviewPage, MeetingsPage, DocumentsPage, DeliverablesPage, TeamPage,
   DealSettingsPage, ActionItemsPage(KanbanColumn),
   ActionItemsPage(ActionsByOwner), TranscriptsPage, DealChatPage,
   AnalysisPage, LiveTranscriptPage} \cup
  {MeetingDetailPage(tab) :
     tab \in {InsightsTabContent, Expecting(InsightsTabContent),
              AnalysisTabContent, Expecting(AnalysisTabContent),
              TranscriptViewer, QAChat}}

AllScreens == {Over({AppLayout, s}) : s \in AppScreens} \cup
              {Over({AppLayout, LiveBannerInner, DealLayout, s}) : s \in DealScreens}
=============================================================================
