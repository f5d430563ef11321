--------------------------------- MODULE Clients ---------------------------------
(* Components side by side: a client's licence and roster, the training of its *)
(* employees, its videos, and the employees' dashboard.  They share no       *)
(* state, so a behaviour is of one of them: focus says of which, and the     *)
(* others' variables idle.                                                   *)
EXTENDS Licensing

CONSTANTS
  Sends, Modules,    \* Engagement: simulations, training modules
  Operations,        \* Engagement: what callers use
  MaxRows, MaxDeaths, \* Engagement: bounds
  Tenants, Objects, Shareds, \* Library: clients, uploads, the platform's modules
  Lessons,           \* Library: the clients' modules
  People, MaxTokens, \* Portal: an address's employee rows
  MaxFaults          \* Library, Portal

VARIABLES
  focus, \* the component that this behaviour is of
  training_now, training_sent, training_openedAt, training_clickedAt,
  training_reportedAt, training_credentials, training_submissions,
  training_forwarded, training_rule, training_open, training_done, training_pc,
  training_target, training_chosen, training_unread, training_figures,
  training_dropped, training_faults,
  videos_client, videos_stored, videos_owner, videos_module, videos_shared,
  videos_rule, videos_pc, videos_place, videos_video, videos_row, videos_list,
  videos_faults, videos_purged, videos_reported, videos_loose, videos_late,
  portal_listed, portal_token, portal_minted, portal_lapsed, portal_inbox,
  portal_course, portal_passed, portal_certificate, portal_pc, portal_at,
  portal_list, portal_held, portal_page, portal_faults, portal_lost, portal_skipped,
  portal_gone

Training == INSTANCE Engagement WITH
  MaxFaults <- MaxDeaths, now <- training_now,
  sent <- training_sent, openedAt <- training_openedAt,
  clickedAt <- training_clickedAt, reportedAt <- training_reportedAt,
  credentials <- training_credentials, submissions <- training_submissions,
  forwarded <- training_forwarded, rule <- training_rule, open <- training_open,
  done <- training_done, pc <- training_pc, target <- training_target,
  chosen <- training_chosen, unread <- training_unread, figures <- training_figures,
  dropped <- training_dropped, faults <- training_faults
Videos == INSTANCE Library WITH
  Rows <- Lessons, client <- videos_client, stored <- videos_stored,
  owner <- videos_owner, module <- videos_module, shared <- videos_shared,
  rule <- videos_rule, pc <- videos_pc, place <- videos_place,
  video <- videos_video, row <- videos_row, list <- videos_list,
  faults <- videos_faults, purged <- videos_purged, reported <- videos_reported,
  loose <- videos_loose, late <- videos_late
Dashboard == INSTANCE Portal WITH
  listed <- portal_listed,
  token <- portal_token, minted <- portal_minted, lapsed <- portal_lapsed,
  inbox <- portal_inbox, course <- portal_course, passed <- portal_passed,
  certificate <- portal_certificate, pc <- portal_pc, at <- portal_at,
  list <- portal_list, held <- portal_held, page <- portal_page,
  faults <- portal_faults, lost <- portal_lost, skipped <- portal_skipped,
  gone <- portal_gone
Links == INSTANCE LinkContract WITH
  Owners <- People, current <- portal_token, minted <- portal_minted,
  mailed <- portal_inbox

\* Each component asks of the constants what it asks by itself.
ASSUME ClientsAssumption ==
  /\ LicensingAssumption
  /\ Training!EngagementAssumption
  /\ Videos!LibraryAssumption
  /\ Dashboard!PortalAssumption

trainingVars == <<training_now, training_sent, training_openedAt,
                  training_clickedAt, training_reportedAt, training_credentials,
                  training_submissions, training_forwarded, training_rule,
                  training_open, training_done, training_pc, training_target,
                  training_chosen, training_unread, training_figures,
                  training_dropped, training_faults>>
videosVars == <<videos_client, videos_stored, videos_owner, videos_module,
                videos_shared, videos_rule, videos_pc, videos_place, videos_video,
                videos_row, videos_list, videos_faults, videos_purged,
                videos_reported, videos_loose, videos_late>>
portalVars == <<portal_listed, portal_token, portal_minted, portal_lapsed,
                portal_inbox, portal_course, portal_passed, portal_certificate,
                portal_pc, portal_at, portal_list, portal_held, portal_page,
                portal_faults, portal_lost, portal_skipped, portal_gone>>
allVars == <<focus, vars, trainingVars, videosVars, portalVars>>

-----------------------------------------------------------------------------
\* The variables of a component stay as they are while another is looked at.
trainingIdle ==
  /\ training_now = 0 /\ training_sent = 0 /\ training_openedAt = 0
  /\ training_clickedAt = 0 /\ training_reportedAt = 0 /\ training_credentials = 0
  /\ training_submissions = 0 /\ training_forwarded = 0 /\ training_rule = 0
  /\ training_open = 0 /\ training_done = 0 /\ training_pc = 0
  /\ training_target = 0 /\ training_chosen = 0 /\ training_unread = 0
  /\ training_figures = 0 /\ training_dropped = 0 /\ training_faults = 0
videosIdle ==
  /\ videos_client = 0 /\ videos_stored = 0 /\ videos_owner = 0 /\ videos_module = 0
  /\ videos_shared = 0 /\ videos_rule = 0 /\ videos_pc = 0 /\ videos_place = 0
  /\ videos_video = 0 /\ videos_row = 0 /\ videos_list = 0 /\ videos_faults = 0
  /\ videos_purged = 0 /\ videos_reported = 0 /\ videos_loose = 0
  /\ videos_late = 0
portalIdle ==
  /\ portal_listed = 0 /\ portal_token = 0 /\ portal_minted = 0 /\ portal_lapsed = 0
  /\ portal_inbox = 0 /\ portal_course = 0 /\ portal_passed = 0
  /\ portal_certificate = 0 /\ portal_pc = 0 /\ portal_at = 0 /\ portal_list = 0
  /\ portal_held = 0 /\ portal_page = 0 /\ portal_faults = 0 /\ portal_lost = 0
  /\ portal_skipped = 0 /\ portal_gone = 0

ClientsInit ==
  \/ /\ focus = "licence" /\ Init /\ trainingIdle /\ videosIdle /\ portalIdle
  \/ /\ focus = "training" /\ Training!Init /\ Init /\ tenant = Onboarded
     /\ videosIdle /\ portalIdle
  \/ /\ focus = "videos" /\ Videos!Init /\ Init /\ tenant = Onboarded
     /\ trainingIdle /\ portalIdle
  \/ /\ focus = "portal" /\ Dashboard!Init /\ Init /\ tenant = Onboarded
     /\ trainingIdle /\ videosIdle

ClientsNext ==
  \/ /\ focus = "licence" /\ Next
     /\ UNCHANGED <<focus, trainingVars, videosVars, portalVars>>
  \/ /\ focus = "training" /\ Training!Next
     /\ UNCHANGED <<focus, vars, videosVars, portalVars>>
  \/ /\ focus = "videos" /\ Videos!Next
     /\ UNCHANGED <<focus, vars, trainingVars, portalVars>>
  \/ /\ focus = "portal" /\ Dashboard!Next
     /\ UNCHANGED <<focus, vars, trainingVars, videosVars>>

ClientsSpec == ClientsInit /\ [][ClientsNext]_allVars

-----------------------------------------------------------------------------
(* Properties.  Those of the licence are in Licensing. *)

\* Whoever submits credentials gets the routed course for it (Engagement:
\* SubmitAssigns).
CoursesFollow == focus = "training" => Training!SubmitAssigns

\* Nobody gets a course twice, but for what overlapping calls explain (Engagement:
\* OnePerSend, DuplicatesBounded).
CoursesOnce == focus = "training" => Training!OnePerSend /\ Training!DuplicatesBounded

\* Videos play as long as their modules are there, and go when their client does, but
\* for those added while it was being removed
\* (Library: ModulesPlay, OthersKeepTheirs, ErasedLeavesNothing, RulesResolve).
VideosHold == focus = "videos" => Videos!LibraryInv

\* Links to the dashboard reach their owners, of every client, and what it shows
\* agrees with itself (Portal: LinksDelivered, EveryClientServed, PageConsistent).
\* They are links as LinkContract has them, and open nobody else's dashboard.
PortalHolds ==
  /\ [](focus = "portal" => Dashboard!PortalInv /\ Links!OpensOwnOnly)
  /\ focus = "portal" => Links!Init
  /\ [][focus = "portal" => [Links!Next]_(Links!vars)]_allVars
=============================================================================
