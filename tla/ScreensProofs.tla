--------------------------- MODULE ScreensProofs ---------------------------
(* What the screens and the changes are such that a user sees what he        *)
(* changed: every change a screen offers reaches every query of the rows it  *)
(* writes, but for those that Workspace lists as KnownLags.                  *)
EXTENDS Workspace, TLAPS

(* All changes that a screen offers. *)
Changes ==
  {useCreateDeal, useUpdateDeal, useDeleteDeal, useAddDealMember, useRemoveDealMember,
   useUpdateMeetingOf(D), useToggleMeetingBot(D), useToggleMeetingBot(NoDeal),
   useConfirmMeetingUpload, useScheduleBot, useConfirmDocumentUpload, useRunAnalysis,
   useToggleActionItem, useUpdateVdrShareScopes, useDisconnectVdr, AssignMeeting,
   useAskQuestion, useMeetingAskQuestion, useGenerateDeliverable, RefreshCalendar}

Offers(part) == part.offers \subseteq Changes

LEMMA OverOffers ==
  ASSUME NEW parts, \A p \in parts : Offers(p) PROVE Offers(Over(parts))
BY DEF Offers, Over

LEMMA ShowsOffers == \A qs : Offers(Shows(qs)) /\ Offers(Awaits(qs))
BY DEF Offers, Shows, Awaits, Part

LEMMA LayoutOffers == Offers(AppLayout) /\ Offers(LiveBannerInner) /\ Offers(DealLayout)
<1>1. Offers(Topbar) /\ Offers(AuthGuard) /\ Offers(Sidebar)
  BY ShowsOffers, OverOffers DEF Topbar, Breadcrumbs, OrgSwitcher, AuthGuard, Sidebar
<1>2. Offers(AppLayout)
  BY <1>1, OverOffers DEF AppLayout
<1>3. Offers(DealLayout) /\ Offers(LiveBannerInner)
  BY ShowsOffers, OverOffers DEF LiveBanner, CogniVaultHeaderChip, DealLayout, LiveBannerInner
<1>. QED  BY <1>2, <1>3

LEMMA DialogOffers ==
  /\ Offers(AssignMeetingDialog) /\ \A deals : Offers(ScheduleBotDialog(deals))
  /\ Offers(UploadDialog) /\ Offers(DocumentUpload)
BY DEF AssignMeetingDialog, ScheduleBotDialog, UploadDialog, DocumentUpload, Offers, Part, Changes

LEMMA AppOffers == \A s \in AppScreens : Offers(s)
<1>1. Offers(DashboardPage)
  BY ShowsOffers, OverOffers, DialogOffers
     DEF DashboardPage, TodayAgenda, NeedsAttention, Part, Offers, Over
<1>2. Offers(DealsPage) /\ Offers(CreateDealPage)
  BY ShowsOffers DEF DealsPage, CreateDealPage, Part, Offers, Changes
<1>3. Offers(CalendarPage)
  <2>1. Offers(MonthView) /\ Offers(WeekView) /\ Offers(AgendaView)
    BY DEF MonthView, WeekView, AgendaView, Part, Offers, Changes
  <2>2. Offers(CalendarRail)
    BY ShowsOffers, OverOffers, DialogOffers DEF CalendarRail
  <2>3. Offers(Part({}, {}, {}, {RefreshCalendar}))
    BY DEF Part, Offers, Changes
  <2>. QED  BY <2>1, <2>2, <2>3, ShowsOffers, OverOffers, DialogOffers DEF CalendarPage
<1>4. Offers(ChatContent)
  BY DEF ChatContent, Part, Offers, Changes
<1>. QED  BY <1>1, <1>2, <1>3, <1>4, ShowsOffers DEF AppScreens

LEMMA DealOffers == \A s \in DealScreens : Offers(s)
<1>1. /\ Offers(DealOverviewPage) /\ Offers(DealSettingsPage)
  <2>1. Offers(LatestInsights) /\ Offers(Part({useDeal}, {}, {useDeal}, {}))
    BY DEF LatestInsights, Part, Offers, Changes
  <2>2. /\ Offers(CogniVaultShareCard)
        /\ Offers(Part({useDeal}, {}, {useDeal}, {useUpdateDeal, useDeleteDeal}))
    BY DEF CogniVaultShareCard, Part, Offers, Changes
  <2>. QED  BY <2>1, <2>2, ShowsOffers, OverOffers
            DEF DealOverviewPage, RecentMeetings, UpcomingCard, DealSettingsPage
<1>2. Offers(MeetingsPage) /\ Offers(DocumentsPage)
  <2>1. Offers(MeetingsTable)
    BY DEF MeetingsTable, MeetingRow, Part, Offers, Changes
  <2>. QED  BY <2>1, ShowsOffers, OverOffers, DialogOffers
            DEF MeetingsPage, DocumentsPage, DocumentList
<1>3. Offers(DeliverablesPage) /\ Offers(TeamPage) /\ Offers(DealChatPage) /\ Offers(AnalysisPage)
  BY DEF DeliverablesPage, TeamPage, DealChatPage, AnalysisPage, AnalysisTabContent,
         Part, Offers, Changes
<1>4. Offers(ActionItemsPage(KanbanColumn)) /\ Offers(ActionItemsPage(ActionsByOwner))
  <2>1. Offers(KanbanColumn)
    BY DEF KanbanColumn, ActionCard, Part, Offers, Changes
  <2>. QED  BY <2>1, ShowsOffers, OverOffers DEF ActionItemsPage, ActionsByOwner
<1>5. Offers(TranscriptsPage) /\ Offers(LiveTranscriptPage)
  <2>1. Offers(DealTranscript)
    BY DEF DealTranscript, Part, Offers
  <2>. QED  BY <2>1, ShowsOffers, OverOffers
            DEF TranscriptsPage, MeetingsRail, ExtractionsRail, LiveTranscriptPage
<1>6. ASSUME NEW tab \in {InsightsTabContent, Expecting(InsightsTabContent),
                         AnalysisTabContent, Expecting(AnalysisTabContent),
                         TranscriptViewer, QAChat}
      PROVE  Offers(MeetingDetailPage(tab))
  <2>1. Offers(tab)
    BY ShowsOffers
       DEF InsightsTabContent, AnalysisTabContent, TranscriptViewer, QAChat, Expecting, Awaits,
           Part, Offers, Changes
  <2>2. Offers(Part({useMeeting}, {}, {useMeeting}, {useUpdateMeetingOf(D)}))
    BY DEF Part, Offers, Changes
  <2>. QED  BY <2>1, <2>2, OverOffers DEF MeetingDetailPage
<1>. QED  BY <1>1, <1>2, <1>3, <1>4, <1>5, <1>6 DEF DealScreens

LEMMA ScreensOffer == \A s \in AllScreens : s.offers \subseteq Changes
<1>1. \A s \in AppScreens : Offers(Over({AppLayout, s}))
  BY AppOffers, LayoutOffers, OverOffers
<1>2. \A s \in DealScreens : Offers(Over({AppLayout, LiveBannerInner, DealLayout, s}))
  BY DealOffers, LayoutOffers, OverOffers
<1>. QED  BY <1>1, <1>2 DEF AllScreens, Offers

LEMMA RowsOf ==
  ASSUME NEW q \in Queries
  PROVE  /\ "deal" \in q.of \/ "dealName" \in q.of
              => q \in {useDeals, useDealsFound, useDealsToPick, useDeal, useCalendarMeetings}
         /\ "deal" \in q.of => q # useCalendarMeetings
         /\ "member" \in q.of => q = useDealMembers
         /\ "meeting" \in q.of =>
              q \in {useMeetings, useMeeting, useCalendarMeetings, useDealExtractions}
         /\ "botSwitch" \in q.of => q \in {useMeetings, useMeeting, useCalendarMeetings}
         /\ "newMeeting" \in q.of => q \in {useMeetings, useCalendarMeetings}
         /\ "unassigned" \in q.of => q \in {useCalendarMeetings, useUpcomingUnassigned}
         /\ "bot" \in q.of => q \in {useBotSessions, useDealBotSessions}
         /\ "analysis" \in q.of => q \in {useAnalyses, useDealExtractions}
         /\ "tick" \in q.of => q = useActionItemCompletions
         /\ "document" \in q.of => q = useDocuments
         /\ "share" \in q.of => q = useVdrConnection
         /\ "deliverable" \in q.of => q = useDeliverables
<1>1. /\ useDeals.of = DealRows /\ useDealsFound.of = DealRows
      /\ useDealsToPick.of = DealRows /\ useDeal.of = DealRows
  BY DEF Query, useDeals, useDealsFound, useDealsToPick, useDeal
<1>2. useDealMembers.of = {"member"}
  BY DEF Query, useDealMembers
<1>3. useMeetings.of = MeetingRows /\ useMeeting.of = {"meeting", "botSwitch"}
  BY DEF Query, useMeetings, useMeeting
<1>3a. useCalendarMeetings.of = MeetingRows \cup {"unassigned", "dealName"}
  BY DEF Query, useCalendarMeetings
<1>3b. useUpcomingUnassigned.of = {"unassigned"}
  BY DEF Query, useUpcomingUnassigned
<1>4. useBotSessions.of = {"bot"} /\ useDealBotSessions.of = {"bot"}
  BY DEF Query, useBotSessions, useDealBotSessions
<1>5. useTranscript.of = {"transcript"} /\ useTranscriptSegments.of = {"transcript"}
  BY DEF Query, useTranscript, useTranscriptSegments
<1>6. useAnalyses.of = {"analysis"} /\ useDealExtractions.of = {"analysis", "meeting"}
  BY DEF Query, useAnalyses, useDealExtractions
<1>7. useActionItemCompletions.of = {"tick"}
  BY DEF Query, useActionItemCompletions
<1>8. useDocuments.of = {"document"}
  BY DEF Query, useDocuments
<1>9. useVdrConnection.of = {"share"}
  BY DEF Query, useVdrConnection
<1>10. useOrgs.of = {"org"}
  BY DEF Query, useOrgs
<1>11. useSession.of = {"session"}
  BY DEF Query, useSession
<1>12. useDeliverables.of = {"deliverable"}
  BY DEF Query, useDeliverables
<1>13. "deal" \notin useCalendarMeetings.of
  BY <1>3a DEF MeetingRows
<1>14. CASE q \in {useDeals, useDealsFound, useDealsToPick, useDeal}
  <2>1. \A x \in q.of : x \in {"deal", "dealName"}
    BY <1>1, <1>14 DEF DealRows
  <2>. QED  BY <1>13, <1>14, <2>1
<1>15. CASE q = useCalendarMeetings
  <2>1. \A x \in q.of :
          x \in {"meeting", "newMeeting", "botSwitch", "unassigned", "dealName"}
    BY <1>3a, <1>15 DEF MeetingRows
  <2>. QED  BY <1>13, <1>15, <2>1
<1>16. CASE q = useMeetings
  <2>1. \A x \in q.of : x \in {"meeting", "newMeeting", "botSwitch"}
    BY <1>3, <1>16 DEF MeetingRows
  <2>. QED  BY <1>16, <2>1
<1>16a. CASE q = useMeeting
  BY <1>3, <1>16a
<1>16b. CASE q = useUpcomingUnassigned
  BY <1>3b, <1>16b
<1>16c. CASE q = useDealMembers
  BY <1>2, <1>16c
<1>17. CASE q = useBotSessions \/ q = useDealBotSessions
  BY <1>4, <1>17
<1>17a. CASE q = useTranscript \/ q = useTranscriptSegments
  BY <1>5, <1>17a
<1>17b. CASE q = useAnalyses \/ q = useDealExtractions
  BY <1>6, <1>17b
<1>18. CASE q \in {useActionItemCompletions, useDocuments, useVdrConnection, useOrgs, useSession,
                   useDeliverables}
  BY <1>7, <1>8, <1>9, <1>10, <1>11, <1>12, <1>18
<1>. QED  BY <1>14, <1>15, <1>16, <1>16a, <1>16b, <1>16c, <1>17, <1>17a, <1>17b, <1>18
          DEF Queries

LEMMA Prefixes ==
  \A a, b, c : /\ Prefix(<<a>>, <<a, b>>) /\ Prefix(<<a>>, <<a, b, c>>)
              /\ Prefix(<<a, b>>, <<a, b>>) /\ Prefix(<<a, b>>, <<a, b, c>>)
              /\ Prefix(<<a, b, c>>, <<a, b, c>>)
BY DEF Prefix

Reach(c, q) == \E p \in c.invalidates : Prefix(p, q.key)

LEMMA DealsReached ==
  ASSUME NEW c \in {useCreateDeal, useUpdateDeal, useDeleteDeal},
         NEW q \in {useDeals, useDealsFound, useDealsToPick, useDeal}
  PROVE  Reach(c, q)
<1>. DEFINE p == <<"deals">>
<1>1. /\ p \in useCreateDeal.invalidates /\ p \in useUpdateDeal.invalidates
      /\ p \in useDeleteDeal.invalidates
  BY DEF useCreateDeal, useUpdateDeal, useDeleteDeal, Change
<1>2. /\ Prefix(p, useDeals.key) /\ Prefix(p, useDealsFound.key)
      /\ Prefix(p, useDealsToPick.key) /\ Prefix(p, useDeal.key)
  BY Prefixes DEF useDeals, useDealsFound, useDealsToPick, useDeal, Query
<1>. QED  BY <1>1, <1>2 DEF Reach

LEMMA MeetingsReached ==
  ASSUME NEW c \in {useUpdateMeetingOf(D), useToggleMeetingBot(D), useToggleMeetingBot(NoDeal),
                    AssignMeeting},
         NEW q \in {useMeetings, useMeeting, useCalendarMeetings}
  PROVE  Reach(c, q)
<1>. DEFINE all  == <<"meetings">>
            deal == <<"meetings", D>>
            cal  == <<"calendar", "meetings">>
<1>1. cal \in useUpdateMeetingOf(D).invalidates /\ deal \in useUpdateMeetingOf(D).invalidates
  BY DEF useUpdateMeetingOf, Change
<1>2. \A x : cal \in useToggleMeetingBot(x).invalidates /\ all \in useToggleMeetingBot(x).invalidates
  BY DEF useToggleMeetingBot, Change
<1>3. cal \in AssignMeeting.invalidates /\ all \in AssignMeeting.invalidates
  BY DEF AssignMeeting, Change
<1>4. /\ Prefix(all, useMeetings.key) /\ Prefix(all, useMeeting.key)
      /\ Prefix(deal, useMeetings.key) /\ Prefix(deal, useMeeting.key)
      /\ Prefix(cal, useCalendarMeetings.key)
  BY Prefixes DEF useMeetings, useMeeting, useCalendarMeetings, Query
<1>. HIDE DEF all, deal, cal
<1>5. cal \in c.invalidates /\ (deal \in c.invalidates \/ all \in c.invalidates)
  BY <1>1, <1>2, <1>3
<1>. QED  BY <1>4, <1>5 DEF Reach

LEMMA BotsReached ==
  ASSUME NEW c \in {useToggleMeetingBot(D), useToggleMeetingBot(NoDeal), useScheduleBot},
         NEW q \in {useBotSessions, useDealBotSessions}
  PROVE  Reach(c, q)
<1>. DEFINE p == <<"bot-sessions">>
<1>1. p \in useScheduleBot.invalidates /\ \A x : p \in useToggleMeetingBot(x).invalidates
  BY DEF useToggleMeetingBot, useScheduleBot, Change
<1>2. Prefix(p, useBotSessions.key) /\ Prefix(p, useDealBotSessions.key)
  BY Prefixes DEF useBotSessions, useDealBotSessions, Query
<1>. QED  BY <1>1, <1>2 DEF Reach

LEMMA OthersReached ==
  /\ Reach(useAddDealMember, useDealMembers) /\ Reach(useRemoveDealMember, useDealMembers)
  /\ Reach(useConfirmMeetingUpload, useMeetings) /\ Reach(useConfirmMeetingUpload, useMeeting)
  /\ Reach(AssignMeeting, useUpcomingUnassigned)
  /\ Reach(useConfirmDocumentUpload, useDocuments)
  /\ Reach(useRunAnalysis, useAnalyses)
  /\ Reach(useToggleActionItem, useActionItemCompletions)
  /\ Reach(useUpdateVdrShareScopes, useVdrConnection)
  /\ Reach(useDisconnectVdr, useVdrConnection)
<1>1. <<"deals", D, "members">> \in useAddDealMember.invalidates /\ Prefix(<<"deals", D, "members">>, useDealMembers.key)
  BY Prefixes DEF useAddDealMember, useDealMembers, Change, Query
<1>2. <<"deals", D, "members">> \in useRemoveDealMember.invalidates /\ Prefix(<<"deals", D, "members">>, useDealMembers.key)
  BY Prefixes DEF useRemoveDealMember, useDealMembers, Change, Query
<1>3. <<"meetings">> \in useConfirmMeetingUpload.invalidates /\ Prefix(<<"meetings">>, useMeetings.key)
  BY Prefixes DEF useConfirmMeetingUpload, useMeetings, Change, Query
<1>4. <<"meetings">> \in useConfirmMeetingUpload.invalidates /\ Prefix(<<"meetings">>, useMeeting.key)
  BY Prefixes DEF useConfirmMeetingUpload, useMeeting, Change, Query
<1>5. <<"dashboard", "upcoming-unassigned">> \in AssignMeeting.invalidates /\ Prefix(<<"dashboard", "upcoming-unassigned">>, useUpcomingUnassigned.key)
  BY Prefixes DEF AssignMeeting, useUpcomingUnassigned, Change, Query
<1>6. <<"documents">> \in useConfirmDocumentUpload.invalidates /\ Prefix(<<"documents">>, useDocuments.key)
  BY Prefixes DEF useConfirmDocumentUpload, useDocuments, Change, Query
<1>7. <<"analyses", M>> \in useRunAnalysis.invalidates /\ Prefix(<<"analyses", M>>, useAnalyses.key)
  BY Prefixes DEF useRunAnalysis, useAnalyses, Change, Query
<1>8. <<"action-item-completions", D>> \in useToggleActionItem.invalidates /\ Prefix(<<"action-item-completions", D>>, useActionItemCompletions.key)
  BY Prefixes DEF useToggleActionItem, useActionItemCompletions, Change, Query
<1>9. <<"cognivault-connection", D>> \in useUpdateVdrShareScopes.invalidates /\ Prefix(<<"cognivault-connection", D>>, useVdrConnection.key)
  BY Prefixes DEF useUpdateVdrShareScopes, useVdrConnection, Change, Query
<1>10. <<"cognivault-connection", D>> \in useDisconnectVdr.invalidates /\ Prefix(<<"cognivault-connection", D>>, useVdrConnection.key)
  BY Prefixes DEF useDisconnectVdr, useVdrConnection, Change, Query
<1>. QED  BY <1>1, <1>2, <1>3, <1>4, <1>5, <1>6, <1>7, <1>8, <1>9, <1>10 DEF Reach

(* The change reaches the query, its key is known to be late, or it puts its *)
(* result into a query that never grows stale.                               *)
Covered(e, q) == e.writes => e.reaches \/ e.lags \/ (e.puts /\ q.lasts)

LEMMA LagsKnown ==
  /\ <<useUpdateDeal, useCalendarMeetings>> \in KnownLags
  /\ <<useConfirmMeetingUpload, useCalendarMeetings>> \in KnownLags
  /\ <<useToggleMeetingBot(NoDeal), useUpcomingUnassigned>> \in KnownLags
  /\ <<useUpdateMeetingOf(D), useDealExtractions>> \in KnownLags
  /\ <<AssignMeeting, useDealExtractions>> \in KnownLags
  /\ <<useRunAnalysis, useDealExtractions>> \in KnownLags
BY DEF KnownLags

(* Every change on any screen reaches every query of the rows it writes, or  *)
(* puts its result into it, but for KnownLags.                               *)
LEMMA EveryChangeCovered ==
  ASSUME NEW c \in Changes, NEW q \in Queries PROVE Covered(Effect(c, q), q)
<1>1. /\ useCreateDeal.writes = {"deal"}
      /\ useUpdateDeal.writes = {"dealName"}
      /\ useDeleteDeal.writes = {"deal"}
      /\ useAddDealMember.writes = {"member"}
      /\ useRemoveDealMember.writes = {"member"}
      /\ useConfirmMeetingUpload.writes = {"newMeeting"}
      /\ useScheduleBot.writes = {"bot"}
      /\ useConfirmDocumentUpload.writes = {"document"}
      /\ useRunAnalysis.writes = {"analysis"}
      /\ useToggleActionItem.writes = {"tick"}
      /\ useUpdateVdrShareScopes.writes = {"share"}
      /\ useDisconnectVdr.writes = {"share"}
      /\ AssignMeeting.writes = {"meeting", "unassigned"}
      /\ useAskQuestion.writes = {}
      /\ useMeetingAskQuestion.writes = {}
      /\ useGenerateDeliverable.writes = {"deliverable"}
      /\ RefreshCalendar.writes = {}
      /\ useUpdateMeetingOf(D).writes = {"meeting"}
      /\ useToggleMeetingBot(D).writes = {"botSwitch", "bot"}
      /\ useToggleMeetingBot(NoDeal).writes = {"botSwitch", "bot", "unassigned"}
  BY DEF useCreateDeal, useUpdateDeal, useDeleteDeal, useAddDealMember, useRemoveDealMember, useConfirmMeetingUpload, useScheduleBot, useConfirmDocumentUpload, useRunAnalysis, useToggleActionItem, useUpdateVdrShareScopes, useDisconnectVdr, AssignMeeting, useAskQuestion, useMeetingAskQuestion, useGenerateDeliverable, RefreshCalendar,
         useUpdateMeetingOf, useToggleMeetingBot, Change, D, NoDeal
<1>2. useDeliverables.lasts
  BY DEF useDeliverables, Query
<1>3. SUFFICES ASSUME NEW t \in c.writes, t \in q.of
               PROVE  \/ Reach(c, q) \/ <<c, q>> \in KnownLags
                      \/ c = useGenerateDeliverable /\ q = useDeliverables
  BY <1>2 DEF Covered, Effect, Reach
<1>4. CASE t \in {"deal", "dealName"}
  <2>1. c \in {useCreateDeal, useUpdateDeal, useDeleteDeal}
        /\ (t = "dealName" => c = useUpdateDeal)
    BY <1>1, <1>3, <1>4 DEF Changes
  <2>2. q \in {useDeals, useDealsFound, useDealsToPick, useDeal, useCalendarMeetings}
        /\ (q = useCalendarMeetings => t = "dealName")
    BY <1>3, <1>4, RowsOf
  <2>. QED  BY <2>1, <2>2, DealsReached, LagsKnown
<1>5. CASE t \in {"meeting", "botSwitch"}
  <2>1. /\ q \in {useMeetings, useMeeting, useCalendarMeetings, useDealExtractions}
        /\ t = "botSwitch" => q # useDealExtractions
    <3>1. "botSwitch" \notin useDealExtractions.of
      BY DEF useDealExtractions, Query
    <3>. QED  BY <1>3, <1>5, <3>1, RowsOf
  <2>2. /\ c \in {useUpdateMeetingOf(D), useToggleMeetingBot(D), useToggleMeetingBot(NoDeal),
                  AssignMeeting}
        /\ t = "meeting" => c \in {useUpdateMeetingOf(D), AssignMeeting}
    BY <1>1, <1>3, <1>5 DEF Changes
  <2>. QED  BY <1>5, <2>1, <2>2, MeetingsReached, LagsKnown
<1>5a. CASE t = "newMeeting"
  <2>1. q \in {useMeetings, useCalendarMeetings}
    BY <1>3, <1>5a, RowsOf
  <2>2. c = useConfirmMeetingUpload
    BY <1>1, <1>3, <1>5a DEF Changes
  <2>. QED  BY <2>1, <2>2, OthersReached, LagsKnown
<1>5b. CASE t = "unassigned"
  <2>1. q \in {useCalendarMeetings, useUpcomingUnassigned}
    BY <1>3, <1>5b, RowsOf
  <2>2. c \in {useToggleMeetingBot(NoDeal), AssignMeeting}
    BY <1>1, <1>3, <1>5b DEF Changes
  <2>. QED  BY <2>1, <2>2, MeetingsReached, OthersReached, LagsKnown
<1>6. CASE t = "bot"
  <2>1. q \in {useBotSessions, useDealBotSessions}
    BY <1>3, <1>6, RowsOf
  <2>2. c \in {useToggleMeetingBot(D), useToggleMeetingBot(NoDeal), useScheduleBot}
    BY <1>1, <1>3, <1>6 DEF Changes
  <2>. QED  BY <2>1, <2>2, BotsReached
<1>7. CASE t = "analysis"
  BY <1>1, <1>3, <1>7, RowsOf, OthersReached, LagsKnown DEF Changes
<1>8. CASE t \in {"member", "document", "tick", "share", "deliverable"}
  BY <1>1, <1>3, <1>8, RowsOf, OthersReached DEF Changes
<1>9. t \in {"deal", "dealName", "meeting", "newMeeting", "botSwitch", "unassigned", "bot",
            "analysis", "member", "document", "tick", "share", "deliverable"}
  BY <1>1, <1>3 DEF Changes
<1>. QED  BY <1>4, <1>5, <1>5a, <1>5b, <1>6, <1>7, <1>8, <1>9

(* No change invalidates the one query that lasts. *)
Apart(c) == \A p \in c.invalidates : 1 \in DOMAIN p /\ p[1] # "deliverables"

LEMMA LastsIsApart ==
  ASSUME NEW q \in Queries, q.lasts
  PROVE  /\ q = useDeliverables /\ ~q.follows /\ q.active = {}
         /\ q # useActionItemCompletions
         /\ \A c \in Changes : ~Reach(c, q)
<1>1. /\ Apart(useCreateDeal)
      /\ Apart(useUpdateDeal)
      /\ Apart(useDeleteDeal)
      /\ Apart(useAddDealMember)
      /\ Apart(useRemoveDealMember)
  BY DEF Apart, Change, useCreateDeal, useUpdateDeal, useDeleteDeal, useAddDealMember, useRemoveDealMember
<1>2. /\ Apart(useUpdateMeetingOf(D))
      /\ Apart(useToggleMeetingBot(D))
      /\ Apart(useToggleMeetingBot(NoDeal))
      /\ Apart(useConfirmMeetingUpload)
      /\ Apart(AssignMeeting)
  BY DEF Apart, Change, useUpdateMeetingOf, useToggleMeetingBot, useConfirmMeetingUpload, AssignMeeting, useUpdateMeetingOf
<1>3. /\ Apart(useScheduleBot)
      /\ Apart(useConfirmDocumentUpload)
      /\ Apart(useRunAnalysis)
      /\ Apart(useToggleActionItem)
  BY DEF Apart, Change, useScheduleBot, useConfirmDocumentUpload, useRunAnalysis, useToggleActionItem
<1>4. /\ Apart(useUpdateVdrShareScopes)
      /\ Apart(useDisconnectVdr)
      /\ Apart(useAskQuestion)
      /\ Apart(useMeetingAskQuestion)
      /\ Apart(useGenerateDeliverable)
      /\ Apart(RefreshCalendar)
  BY DEF Apart, Change, useUpdateVdrShareScopes, useDisconnectVdr, useAskQuestion, useMeetingAskQuestion, useGenerateDeliverable, RefreshCalendar
<1>5. /\ useDeliverables.key[1] = "deliverables"
      /\ ~useDeliverables.follows /\ useDeliverables.active = {}
  BY DEF useDeliverables, Query
<1>6. q = useDeliverables /\ q # useActionItemCompletions
  <2>1. /\ ~useDeals.lasts /\ ~useDealsFound.lasts /\ ~useDealsToPick.lasts /\ ~useDeal.lasts
        /\ ~useDealMembers.lasts /\ ~useMeetings.lasts /\ ~useMeeting.lasts /\ ~useCalendarMeetings.lasts
        /\ ~useUpcomingUnassigned.lasts /\ ~useBotSessions.lasts /\ ~useDealBotSessions.lasts /\ ~useTranscript.lasts
        /\ ~useTranscriptSegments.lasts /\ ~useAnalyses.lasts /\ ~useDealExtractions.lasts /\ ~useActionItemCompletions.lasts
        /\ ~useDocuments.lasts /\ ~useVdrConnection.lasts /\ ~useOrgs.lasts /\ ~useSession.lasts
    BY DEF Query, useDeals, useDealsFound, useDealsToPick, useDeal, useDealMembers, useMeetings, useMeeting, useCalendarMeetings, useUpcomingUnassigned, useBotSessions, useDealBotSessions, useTranscript, useTranscriptSegments, useAnalyses, useDealExtractions, useActionItemCompletions, useDocuments, useVdrConnection, useOrgs, useSession
  <2>. QED  BY <2>1 DEF Queries
<1>8. ASSUME NEW c \in Changes PROVE ~Reach(c, q)
  <2>1. Apart(c)
    BY <1>1, <1>2, <1>3, <1>4 DEF Changes
  <2>. QED  BY <1>5, <1>6, <2>1 DEF Apart, Reach, Prefix
<1>. QED  BY <1>5, <1>6, <1>8
=============================================================================
