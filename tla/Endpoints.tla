----------------------------- MODULE Endpoints -----------------------------
(***************************************************************************)
(* What the API's controllers declare of each of their routes: what it     *)
(* does, who may call it, what the first of :tenantId and :id in its path  *)
(* is, and the guards it carries.  A decorator on a method overrides the   *)
(* one on its class.                                                       *)
(*                                                                         *)
(* The path has a "tenant", which the handler's ParseUUIDPipe takes only   *)
(* if it is a UUID; a tenantId that no pipe looks at, any "word"; the id   *)
(* of something "other", parsed as well; or "none" of them.                *)
(*                                                                         *)
(* A route "read"s; writes the caller's "own" account; "edit"s a client's  *)
(* data; "redeem"s a licence key; makes or starts campaigns that "send";   *)
(* "stop"s them; or "govern"s the clients, the staff and the shared        *)
(* libraries.                                                              *)
(***************************************************************************)

Everyone == {"staff", "admin", "viewer"}
Editors == {"staff", "admin"}
Staff == {"staff"}
Nobody == {}    \* a public route, which no one has to sign in for

Routes(names, does, roles, path, guards) ==
  [name : names, does : {does}, roles : {roles}, path : {path}, guards : {guards}]

Cleared == {"consent", "approved"}
Writable == {"writable"}
Limited == {"limit"}
Free == {}

-----------------------------------------------------------------------------
(* Signing in and the platform's own *)

AuthRoutes ==
  Routes({"login", "verifyMfa"}, "own", Nobody, "none", Limited)
  \cup Routes({"setupMfa", "activateMfa"}, "own", Everyone, "none", {"unenrolled"})
  \cup Routes({"disableMfa"}, "own", Everyone \ Staff, "none", Free)
  \cup Routes({"changePassword"}, "own", Everyone, "none", Limited)
  \cup Routes({"me"}, "read", Everyone, "none", Free)

InviteRoutes == Routes({"describeInvite", "acceptInvite"}, "own", Nobody, "none", Limited)
SignupRoutes == Routes({"signup"}, "own", Nobody, "none", Limited)

PlatformRoutes ==
  Routes({"listStaff", "getPolicy"}, "read", Staff, "none", Free)
  \cup Routes({"inviteStaff"}, "govern", Staff, "none", Limited)
  \cup Routes({"updatePolicy"}, "govern", Staff, "none", Free)
  \cup Routes({"resetStaffPassword"}, "govern", Staff, "other", Limited)
  \cup Routes({"resetStaffMfa", "deactivateStaff", "reactivateStaff"}, "govern", Staff, "other", Free)

AuditRoutes == Routes({"auditLogs"}, "read", Staff, "none", Free)

HealthRoutes ==
  Routes({"health"}, "read", Nobody, "none", Free)
  \cup Routes({"mailerHealth"}, "read", Staff, "none", Free)

SharedModuleRoutes ==
  Routes({"sharedModules", "sharedIntegrity"}, "read", Everyone, "none", Free)
  \cup Routes({"sharedLink", "sharedUpload"}, "govern", Staff, "none", Free)
  \cup Routes({"updateSharedModule", "removeSharedModule"}, "govern", Staff, "other", Free)

SharedQuizRoutes ==
  Routes({"sharedQuizzes"}, "read", Everyone, "none", Free)
  \cup Routes({"sharedQuiz"}, "read", Everyone, "other", Free)
  \cup Routes({"createSharedQuiz"}, "govern", Staff, "none", Free)
  \cup Routes({"updateSharedQuiz", "removeSharedQuiz"}, "govern", Staff, "other", Free)

-----------------------------------------------------------------------------
(* Clients and their console users *)

TenantRoutes ==
  Routes({"tenants", "overview", "pendingSignups"}, "read", Staff, "none", Free)
  \cup Routes({"createTenant"}, "govern", Staff, "none", Free)
  \cup Routes({"tenant", "tenantUsers"}, "read", Staff, "tenant", Free)
  \cup Routes({"approve", "agreement", "setStatus", "removeTenant", "setDeliverability",
               "setDigest", "setLicense", "removeUser"}, "govern", Staff, "tenant", Free)
  \cup Routes({"trial", "readiness", "allowlist", "seatUsage"}, "read", Everyone, "tenant", Free)
  \cup Routes({"getSecurity"}, "read", Editors, "tenant", {"unenrolled"})
  \cup Routes({"auditLog", "getBranding"}, "read", Editors, "tenant", Free)
  \cup Routes({"setSecurity", "unlockUser", "setBranding", "setLogo", "deactivateUser",
               "reactivateUser"}, "edit", Editors, "tenant", Free)
  \cup Routes({"sendAllowlistProbe", "createUser", "resendInvite"}, "edit", Editors, "tenant", Limited)

LicenseRoutes ==
  Routes({"licenseKeys"}, "read", Staff, "tenant", Free)
  \cup Routes({"issueKey", "revokeKey"}, "govern", Staff, "tenant", Free)
  \cup Routes({"redeem"}, "redeem", Editors, "tenant", Limited)

DomainRoutes ==
  Routes({"domains"}, "read", Everyone, "word", Free)
  \cup Routes({"addDomain"}, "edit", Editors, "word", Writable)
  \cup Routes({"verifyDomain", "removeDomain"}, "edit", Editors, "word", Free)

SendingDomainRoutes ==
  Routes({"verifiedSendingDomains"}, "read", Everyone, "word", Free)
  \cup Routes({"sendingDomains", "sharedSendingDomains"}, "read", Editors, "word", Free)
  \cup Routes({"addSendingDomain", "enableShared", "setSenderName", "refreshSendingDomain",
               "removeSendingDomain"}, "edit", Editors, "word", Free)

ReportChannelRoutes == Routes({"reportChannel"}, "read", Editors, "word", Free)

-----------------------------------------------------------------------------
(* People, campaigns and content *)

EmployeeRoutes ==
  Routes({"employees", "risk", "riskCsv", "riskPdf", "repeatClickers"}, "read", Everyone, "word", Free)
  \cup Routes({"riskAdvice"}, "read", Editors, "word", Free)
  \cup Routes({"enrolRepeatClickers", "removeEmployee"}, "edit", Editors, "word", Free)
  \cup Routes({"uploadEmployees", "uploadCsv"}, "edit", Editors, "word", Writable)

GroupRoutes ==
  Routes({"groups", "group"}, "read", Everyone, "word", Free)
  \cup Routes({"createGroup", "updateGroup", "setMembers", "removeGroup"}, "edit", Editors, "word", Free)

CampaignRoutes ==
  Routes({"campaigns", "campaign", "preflight", "recipients", "impact"}, "read", Everyone, "word", Free)
  \cup Routes({"createCampaign", "schedule", "launch", "resume", "retryUnsent"},
              "send", Editors, "word", Cleared)
  \cup Routes({"pause", "kill"}, "stop", Editors, "word", Free)

ReportRoutes ==
  Routes({"trend", "reportCsv", "report"}, "read", Everyone, "word", Free)
  \cup Routes({"generateReport"}, "edit", Editors, "word", Free)

CertificateRoutes ==
  Routes({"certificates", "certificate", "certificatePdf"}, "read", Everyone, "word", Free)
  \cup Routes({"verifyCertificate", "verifyPdf"}, "read", Nobody, "none", Free)

ScenarioRoutes ==
  Routes({"scenarios", "scenario"}, "read", Everyone, "word", Free)
  \cup Routes({"previewScenario"}, "read", Editors, "word", Free)
  \cup Routes({"generateScenario", "createScenario"}, "edit", Editors, "word", Writable)
  \cup Routes({"updateScenario", "removeScenario"}, "edit", Editors, "word", Free)

TemplateRoutes ==
  Routes({"templates", "categories", "industries", "template"}, "read", Everyone, "none", Free)
  \cup Routes({"createTemplate", "updateTemplate", "removeTemplate"}, "govern", Staff, "none", Free)
  \cup Routes({"fromTemplate"}, "edit", Editors, "word", Writable)

LandingRoutes ==
  Routes({"landingPages", "previewLanding"}, "read", Editors, "word", Free)
  \cup Routes({"createLanding", "removeLanding"}, "edit", Editors, "word", Free)

QuizRoutes ==
  Routes({"quizzes", "quiz", "quizResults"}, "read", Everyone, "word", Free)
  \cup Routes({"createQuiz", "quizFromShared"}, "edit", Editors, "word", Writable)
  \cup Routes({"updateQuiz", "setQuestions", "importQuestions", "removeQuiz"}, "edit", Editors, "word", Free)

TrainingModuleRoutes ==
  Routes({"trainingModules"}, "read", Everyone, "word", Free)
  \cup Routes({"moduleFromShared", "linkModule", "uploadModule"}, "edit", {"admin"}, "word", Writable)
  \cup Routes({"setModuleQuiz"}, "edit", Editors, "word", Writable)
  \cup Routes({"updateModule", "removeModule"}, "edit", {"admin"}, "word", Free)

TrainingRoutes ==
  Routes({"routingRules", "assignments"}, "read", Everyone, "word", Free)
  \cup Routes({"assignTraining", "upsertRule", "assignManually"}, "edit", Editors, "word", Writable)
  \cup Routes({"deleteRule", "markComplete"}, "edit", Editors, "word", Free)

-----------------------------------------------------------------------------
(* What employees and other systems call, with a token of their own *)

TrackingRoutes ==
  Routes({"confirmProbe", "open", "click", "reportMail", "submit", "branding", "trackedQuiz",
          "submitTrackedQuiz", "moment"}, "own", Nobody, "none", Limited)

LearnRoutes == Routes({"openLesson", "submitQuiz", "completeLesson"}, "own", Nobody, "none", Free)

PortalRoutes ==
  Routes({"requestLink"}, "own", Nobody, "none", Limited)
  \cup Routes({"summary"}, "read", Nobody, "none", Free)

IntakeRoutes ==
  Routes({"ingestReport"}, "own", Nobody, "none", {"limit", "secret"})
  \cup Routes({"phishReports"}, "read", Everyone, "tenant", Free)

PostmarkRoutes == Routes({"ingestPostmark"}, "own", Nobody, "none", {"limit", "secret"})

AllRoutes ==
  UNION {AuthRoutes, InviteRoutes, SignupRoutes, PlatformRoutes, AuditRoutes, HealthRoutes,
         SharedModuleRoutes, SharedQuizRoutes, TenantRoutes, LicenseRoutes, DomainRoutes,
         SendingDomainRoutes, ReportChannelRoutes, EmployeeRoutes, GroupRoutes, CampaignRoutes,
         ReportRoutes, CertificateRoutes, ScenarioRoutes, TemplateRoutes, LandingRoutes,
         QuizRoutes, TrainingModuleRoutes, TrainingRoutes, TrackingRoutes, LearnRoutes,
         PortalRoutes, IntakeRoutes, PostmarkRoutes}

\* A route as the guards see it.
Kind(r) == [does |-> r.does, roles |-> r.roles, path |-> r.path, guards |-> r.guards]
Kinds == {Kind(r) : r \in AllRoutes}
=============================================================================
