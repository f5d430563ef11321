------------------------------- MODULE Pages -------------------------------
(***************************************************************************)
(* The screens of the web console: who may open each of them, and which    *)
(* of the API's routes it calls for each role, itself or through the       *)
(* components it is made of.                                               *)
(***************************************************************************)
EXTENDS Endpoints

\* The banner above every screen of a client asks how long its trial lasts.
TrialBanner(role) == IF role = "staff" THEN {} ELSE {"trial"}
Screen(allow, calls) == [allow |-> allow, calls |-> [role \in allow |-> calls \cup TrialBanner(role)]]
Admin == {"admin"}
Clients == {"admin", "viewer"}

ClientList == Screen(Staff, {"overview", "pendingSignups", "createTenant", "approve"})
ClientDetail ==
  Screen(Staff, {"tenant", "tenantUsers", "campaigns", "licenseKeys", "seatUsage", "agreement",
                 "createUser", "setDeliverability", "setDigest", "setLicense", "setStatus",
                 "issueKey", "revokeKey", "removeTenant", "kill"})
SharedLibrary ==
  Screen(Staff, {"sharedModules", "sharedLink", "sharedUpload", "removeSharedModule"})
QuizLibrary == Screen(Staff, {"sharedQuizzes", "createSharedQuiz", "removeSharedQuiz"})
StaffAudit == Screen(Staff, {"auditLogs", "tenants"})
StaffScenarios ==
  Screen(Staff, {"templates", "createTemplate", "updateTemplate", "removeTemplate"})
StaffAccounts ==
  Screen(Staff, {"listStaff", "getPolicy", "inviteStaff", "resetStaffPassword", "resetStaffMfa",
                 "deactivateStaff", "reactivateStaff", "updatePolicy"})
StaffSecurity == Screen(Staff, {"setupMfa", "activateMfa"})

ReadinessChecklist == {"readiness"}
Campaigns ==
  Screen(Admin, ReadinessChecklist \cup
                {"campaigns", "scenarios", "employees", "verifiedSendingDomains", "landingPages",
                 "groups", "preflight", "launch", "pause", "resume", "kill", "group",
                 "previewLanding", "createCampaign"})
CreateGroupModal == {"createGroup"}
CampaignReport(canGenerate) ==
  {"report", "recipients", "reportCsv"} \cup CreateGroupModal \cup
  (IF canGenerate THEN {"trainingModules", "assignManually", "generateReport", "retryUnsent"} ELSE {})
CampaignDetail == Screen(Admin, CampaignReport(TRUE))
Dashboard == Screen({"viewer"}, CampaignReport(FALSE) \cup {"trend"})
Risk ==
  [allow |-> Clients,
   calls |-> [role \in Clients |->
     TrialBanner(role) \cup {"risk", "trainingModules", "riskCsv", "riskPdf", "enrolRepeatClickers"}
       \cup IF role = "admin" THEN {"riskAdvice"} ELSE {}]]
Certificates == Screen(Clients, {"certificates", "certificatePdf"})
Reported == Screen(Clients, {"phishReports"})
Scenarios ==
  Screen(Admin, {"scenarios", "generateScenario", "updateScenario", "createScenario",
                 "removeScenario"})
Templates == Screen(Admin, {"templates", "categories", "industries", "fromTemplate"})
ContentCalls ==
  {"trainingModules", "sharedModules", "quizzes", "linkModule", "uploadModule",
   "moduleFromShared", "removeModule", "setModuleQuiz"}
ContentByStaff == Screen(Admin \cup Staff, ContentCalls) \* mistaken: staff open it as well
Content == Screen(Admin, ContentCalls)
Quizzes ==
  Screen(Admin, {"quizzes", "trainingModules", "campaigns", "sharedQuizzes", "updateQuiz",
                 "createQuiz", "quizFromShared", "importQuestions", "removeQuiz", "quizResults",
                 "quiz"})
Routing ==
  Screen(Admin, {"scenarios", "routingRules", "assignments", "trainingModules", "upsertRule",
                 "deleteRule", "markComplete"})
Employees ==
  Screen(Admin, {"employees", "seatUsage", "trainingModules", "assignTraining", "uploadCsv",
                 "uploadEmployees", "removeEmployee"})
Groups ==
  Screen(Admin, {"groups", "employees", "createGroup", "updateGroup", "removeGroup", "group",
                 "setMembers", "trainingModules", "assignTraining"})
Domains ==
  Screen(Admin, {"domains", "allowlist", "sendAllowlistProbe", "addDomain", "verifyDomain",
                 "removeDomain"})
SendingDomains ==
  Screen(Admin, {"sendingDomains", "sharedSendingDomains", "setSenderName", "addSendingDomain",
                 "enableShared", "refreshSendingDomain", "removeSendingDomain"})
ReportingSetup == Screen(Admin, {"reportChannel"})
Branding == Screen(Admin, {"getBranding", "setBranding", "setLogo"})
License == Screen(Admin, {"redeem"})
Security ==
  Screen(Admin, {"getSecurity", "auditLog", "setSecurity", "setupMfa", "activateMfa", "disableMfa",
                 "changePassword", "unlockUser", "createUser", "resendInvite", "deactivateUser",
                 "reactivateUser"})

Console ==
  [clientList |-> ClientList, clientDetail |-> ClientDetail, sharedLibrary |-> SharedLibrary,
   quizLibrary |-> QuizLibrary, staffAudit |-> StaffAudit, staffScenarios |-> StaffScenarios,
   staffAccounts |-> StaffAccounts, staffSecurity |-> StaffSecurity, campaigns |-> Campaigns,
   campaignDetail |-> CampaignDetail, dashboard |-> Dashboard, risk |-> Risk,
   certificates |-> Certificates, reported |-> Reported, scenarios |-> Scenarios,
   templates |-> Templates, content |-> Content, quizzes |-> Quizzes, routing |-> Routing,
   employees |-> Employees, groups |-> Groups, domains |-> Domains,
   sendingDomains |-> SendingDomains, reportingSetup |-> ReportingSetup, branding |-> Branding,
   license |-> License, security |-> Security]

\* The links above every screen, for each role, but the guide's, which is open to all.
NavBar ==
  [staff |-> {"clientList", "staffScenarios", "sharedLibrary", "quizLibrary", "staffAccounts",
              "staffAudit", "staffSecurity"},
   admin |-> {"campaigns", "scenarios", "templates", "content", "quizzes", "routing", "employees",
              "groups", "security", "domains", "sendingDomains", "risk", "certificates",
              "reported", "reportingSetup", "branding", "license"},
   viewer |-> {"dashboard", "risk", "certificates", "reported"}]

\* Screens that nobody signs in for, each with the token of its link.
ReportButton == {"reportMail"}
QuizCalls == {"trackedQuiz", "submitTrackedQuiz"}
MomentCalls == {"moment"} \cup ReportButton \cup QuizCalls
LoginForm == {"submit"}
LoginPageCalls == {"branding"} \cup LoginForm
CompleteCalls == {"openLesson"}
LessonCalls == {"openLesson", "submitQuiz", "completeLesson"} \cup CompleteCalls
PortalDashboard == {"summary", "verifyPdf"}
PortalCalls == {"requestLink"} \cup PortalDashboard
InviteCalls == {"describeInvite", "acceptInvite"}
VerifyCalls == {"verifyCertificate"}
Public ==
  [moment |-> MomentCalls, fakeLogin |-> LoginPageCalls, lesson |-> LessonCalls,
   portal |-> PortalCalls, invite |-> InviteCalls, verify |-> VerifyCalls]

\* The two sign-in screens, and the roles they let in.
Accepts == [login |-> Clients, staffLogin |-> Staff]

\* The address without a path only redirects.
Places == DOMAIN Console \cup DOMAIN Public \cup DOMAIN Accepts \cup {"index"}

\* The routes by their names.
RouteNames == {r.name : r \in AllRoutes}
Route == [n \in RouteNames |-> CHOOSE r \in AllRoutes : r.name = n]
=============================================================================
