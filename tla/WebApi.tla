------------------------------- MODULE WebApi -------------------------------
(***************************************************************************)
(* The route handlers of the web application (apps/web/src/app/api): every *)
(* one stands between the browser and Core or the AI service.  It checks   *)
(* the session cookie with Core, the CSRF header against its cookie and    *)
(* the content of the request, in an order of its own, forwards the        *)
(* request with the session token, and turns the reply, or its absence,    *)
(* into an answer.  The handlers of the account change the cookies too.    *)
(*                                                                         *)
(* A handler is a record: the guards in their order, what the service      *)
(* behind it does (effect), how it acknowledges (body), and how the reply  *)
(* becomes an answer.  Two calls run concurrently: one of any handler, one *)
(* of the handlers of the account; sessions end by themselves meanwhile.   *)
(* The chat route is module ChatTurn.                                      *)
(***************************************************************************)
EXTENDS Naturals, Sequences, FiniteSets

VARIABLES
    jar,        \* the browser's session cookie (0: none) and CSRF cookie
    live,       \* the session tokens Core accepts
    apiCalls    \* the calls, by slot

apiVars == <<jar, live, apiCalls>>

(***************************************************************************)
(* Handlers.  Answers are classes of statuses: "done" (2xx), "refused"     *)
(* (4xx) and "unavailable" (5xx: the outcome is not known).  Most services *)
(* do their work in one transaction, or refuse before they write; the few  *)
(* that commit in several steps (InSteps) may be stopped by a 4xx after    *)
(* some of them.                                                           *)
(***************************************************************************)
Api(guards, effect, acknowledges, answers) ==
    [guards |-> guards, effect |-> effect, acknowledges |-> acknowledges,
     answers |-> answers, cookies |-> "kept"]

Account(guards, effect, acknowledges, answers, cookies) ==
    [Api(guards, effect, acknowledges, answers) EXCEPT !.cookies = cookies]

InSteps(handler) == [handler EXCEPT !.effect = "steps"]

Session == <<"session">>
SessionCsrf == <<"session", "csrf">>
SessionCsrfInput == <<"session", "csrf", "input">>
CsrfSession == <<"csrf", "session">>
CsrfSessionInput == <<"csrf", "session", "input">>

ApiRead(answers) == Api(Session, "read", "value", answers)
ApiWrite(answers) == Api(SessionCsrfInput, "change", "value", answers)
ApiRemoval(answers) == Api(SessionCsrf, "change", "empty", answers)

\* The account.
authCsrfGet == Account(<< >>, "none", "value", "always", "csrf")
authLoginPost == Account(<<"input">>, "signIn", "value", "strict", "set")
authRegisterPost == Account(<<"input">>, "signIn", "value", "strict", "set")
authSetupPost == Account(<<"input">>, "signIn", "value", "strict", "set")
authLogoutPost == Account(CsrfSession, "signOut", "empty", "accepts", "cleared")
authPasswordPost == Account(CsrfSessionInput, "rotate", "value", "strictOrRelays", "set")
authInvitationsPost == Api(CsrfSession, "change", "value", "parses")
authMeGet == Api(Session, "none", "value", "always")
authRegistrationEmailPost == Api(<<"parse", "input">>, "change", "empty", "accepts")
authSessionsGet == ApiRead("relays")
authSessionDelete == Api(CsrfSessionInput, "revoke", "empty", "acknowledges")

\* Actions, activity, AI settings, backups.
actionsPost == InSteps(ApiWrite("strictOrRelays"))
activityGet == ApiRead("checks")
activityIntegrityGet == ApiRead("relays")
activityTimelineGet == Api(<<"session", "input">>, "read", "value", "checks")
aiForwardGet == Api(<<"session", "input">>, "read", "value", "parses")
aiForwardPut == Api(<<"session", "input", "csrf", "input">>, "change", "value", "parses")
backupsPersonalPost == Api(CsrfSessionInput, "change", "value", "copies")
backupsImportPost == Api(CsrfSessionInput, "change", "value", "relays")
backupsPreviewPost == Api(CsrfSessionInput, "read", "value", "relays")

\* Calendar.
calendarEventsGet == ApiRead("strictOrRelays")
calendarEventsPost == Api(SessionCsrf, "change", "value", "parses")
calendarEventPut == Api(SessionCsrf, "change", "value", "parses")
ParsesTheAcknowledgement == ApiRemoval("parses")    \* mutant
calendarEventDelete == ApiRemoval("acknowledges")
calendarSyncPost == InSteps(Api(SessionCsrf, "change", "value", "parses"))
calendarSettingsGet == ApiRead("parses")
calendarSettingsPut == Api(SessionCsrf, "change", "value", "parses")

\* Conversations, device commands, devices, gateways, home.
conversationsGet == ApiRead("checks")
conversationGet == Api(<<"session", "input">>, "read", "value", "relays")
conversationPut == ApiWrite("relays")
conversationPatch == ApiWrite("relays")
conversationDelete == Api(SessionCsrfInput, "change", "empty", "acknowledges")
conversationForward == {conversationGet, conversationPut, conversationPatch, conversationDelete}
devRecoveryPost == Api(<<"parse", "input">>, "change", "value", "parses")
deviceCommandsPost == ApiWrite("relays")
deviceCommandsAsyncPost == ApiWrite("relays")
deviceCommandGet == ApiRead("relays")
devicesGet == ApiRead("relays")
devicesRefreshPost == InSteps(Api(SessionCsrf, "change", "value", "relays"))
buttonBindingsGet == ApiRead("relays")
buttonBindingsPut == ApiWrite("relays")
motionEventsGet == ApiRead("relays")
gatewaysGet == ApiRead("relays")
gatewayEnrollmentsPost == ApiWrite("relays")
gatewayBluetoothGet == ApiRead("lists")
gatewayBluetoothPost == ApiWrite("relays")
gatewayZigbeeActionPost == ApiWrite("relays")
gatewayZigbeeGet == ApiRead("lists")
gatewayZigbeePost == InSteps(ApiWrite("relays"))
homeRoomsGet == ApiRead("parses")
homeRoomsPost == ApiWrite("relays")
homeRoomPatch == ApiWrite("relays")
homeRoomDelete == ApiRemoval("acknowledges")
homeConnectionPatch == ApiWrite("relays")
homeConnectionDelete == InSteps(ApiRemoval("acknowledges"))
homeConnectionRoomPut == Api(SessionCsrfInput, "change", "empty", "acknowledges")

\* Integrations.
catalogProvidersGet == ApiRead("parses")
catalogConnectionsGet == ApiRead("parses")
googleGet == ApiRead("parses")
googleDelete == ApiRemoval("acknowledges")
googleCallbackGet == Api(<<"session", "input">>, "change", "value", "redirects")
googleAuthorizationPost == Api(SessionCsrf, "change", "value", "parses")
googleCalendarsGet == ApiRead("parses")
googleEventsGet == ApiRead("parses")
googleEventsPost == Api(SessionCsrf, "change", "value", "parses")
googleEventPut == Api(SessionCsrf, "change", "value", "parses")
googleEventDelete == ApiRemoval("acknowledgesOrParses")
homeAssistantGet == ApiRead("parses")
homeAssistantDelete == Api(SessionCsrf, "change", "value", "relays")
homeAssistantProbePost == Api(SessionCsrf, "read", "value", "relays")
homeAssistantConnectPost == InSteps(Api(SessionCsrf, "change", "value", "relays"))
homeAssistantSyncPost == Api(SessionCsrf, "change", "value", "parses")
nanoleafDiscoverGet == ApiRead("checks")
nanoleafConnectionsGet == ApiRead("parses")
nanoleafConnectionsPost == ApiWrite("relays")
nanoleafConnectionPatch == ApiWrite("relays")
nanoleafConnectionDelete == ApiRemoval("acknowledges")
nanoleafBrightnessPut == ApiWrite("relays")
nanoleafColorPut == ApiWrite("relays")
nanoleafTemperaturePut == ApiWrite("relays")
nanoleafPowerPut == ApiWrite("relays")
nanoleafSceneSelectPut == ApiWrite("relays")
nanoleafScenesGet == ApiRead("relays")
nanoleafStateGet == ApiRead("relays")
networkDiscoverPost == Api(SessionCsrf, "change", "value", "strict")
shellyConnectionsPost == ApiWrite("strict")
spotifyGet == ApiRead("parses")
spotifyDelete == ApiRemoval("acknowledges")
spotifyAuthorizationPost == Account(SessionCsrf, "change", "value", "relays", "restored")
spotifyCallbackGet == Api(<<"session", "input">>, "change", "value", "redirects")
spotifyDevicesGet == ApiRead("relays")
spotifyPlaybackGet == ApiRead("parses")
spotifyPlaybackPut == Api(SessionCsrfInput, "change", "empty", "acknowledgesOrParses")
spotifyPlaylistPut == Api(SessionCsrfInput, "change", "empty", "acknowledgesOrParses")
spotifyPlaybackDevicePut == Api(SessionCsrfInput, "change", "empty", "acknowledges")
spotifyPlaylistsGet == ApiRead("strict")
youtubeEmbedPost == ApiWrite("strict")
youtubePlayPost == ApiWrite("parses")

\* Knowledge, memory, models.
knowledgeProxyRead == Api(<<"session", "input">>, "read", "value", "streams")
ForgetsCsrf == InSteps(Api(<<"session", "input">>, "change", "value", "streams"))    \* mutant
knowledgeProxyWrite == InSteps(Api(SessionCsrfInput, "change", "value", "streams"))
knowledgeProxy == {knowledgeProxyRead, knowledgeProxyWrite}
memoryGet == ApiRead("checks")
memoryPost == ApiWrite("relays")
memoryMutatePatch == ApiWrite("parses")
memoryMutateDelete == Api(SessionCsrfInput, "change", "empty", "acknowledgesOrParses")
memoryMutate == {memoryMutatePatch, memoryMutateDelete}
memoryConfirmPost == Api(SessionCsrf, "change", "value", "parses")
memoryRejectPost == Api(SessionCsrfInput, "change", "empty", "acknowledgesOrParses")
memoryValidityPatch == ApiWrite("parses")
memoryContextGet == ApiRead("parses")
memoryContextSettingsPut == ApiWrite("parses")
memorySettingsPut == ApiWrite("parses")
modelsGet == ApiRead("checks")
modelsBenchmarkPost == Api(SessionCsrfInput, "read", "value", "strict")

\* Roles, retention, spaces, speech, status.
rbacGet == ApiRead("copies")
rbacUsersGet == ApiRead("copies")
rbacUserRolesPut == Api(SessionCsrf, "change", "empty", "copies")
rbacUserEnabledPut == Api(SessionCsrf, "change", "empty", "copies")
rbacRolesPost == Api(SessionCsrf, "change", "value", "copies")
rbacRolePut == Api(SessionCsrf, "change", "value", "copies")
rbacRoleDelete == Api(SessionCsrf, "change", "empty", "copies")
retentionGet == ApiRead("parses")
retentionPut == Api(CsrfSessionInput, "change", "value", "relays")
retentionCleanupPost == Api(CsrfSessionInput, "change", "value", "relays")
retentionPreviewGet == ApiRead("relays")
spaceProxyGet == ApiRead("streams")
spaceProxyPut == Api(CsrfSession, "change", "value", "streams")
spaceProxy == {spaceProxyGet, spaceProxyPut}
spaceInvitationDelete == Api(<<"input", "csrf", "session">>, "change", "empty", "streams")
identityForward == {Api(<<"input", "session">>, "read", "value", "streams"),
                    Api(<<"input", "csrf", "session">>, "change", "value", "streams")}
speechSynthesizePost == Api(CsrfSessionInput, "read", "value", "checks")
speechVoicesGet == ApiRead("checks")
statusGet == ApiRead("always")
systemServicesGet == ApiRead("always")

AccountHandlers ==
    {authLoginPost, authRegisterPost, authSetupPost, authLogoutPost, authPasswordPost,
     authSessionDelete, spotifyAuthorizationPost}

ApiHandlers ==
    {authCsrfGet} \cup AccountHandlers \cup conversationForward \cup knowledgeProxy \cup memoryMutate
        \cup spaceProxy \cup identityForward \cup
    {authInvitationsPost, authMeGet, authRegistrationEmailPost, authSessionsGet, actionsPost,
     activityGet, activityIntegrityGet, activityTimelineGet, aiForwardGet, aiForwardPut,
     backupsPersonalPost, backupsImportPost, backupsPreviewPost, calendarEventsGet,
     calendarEventsPost, calendarEventPut, calendarEventDelete, calendarSyncPost,
     calendarSettingsGet, calendarSettingsPut, conversationsGet, devRecoveryPost,
     deviceCommandsPost, deviceCommandsAsyncPost, deviceCommandGet, devicesGet,
     devicesRefreshPost, buttonBindingsGet, buttonBindingsPut, motionEventsGet, gatewaysGet,
     gatewayEnrollmentsPost, gatewayBluetoothGet, gatewayBluetoothPost,
     gatewayZigbeeActionPost, gatewayZigbeeGet, gatewayZigbeePost, homeRoomsGet,
     homeRoomsPost, homeRoomPatch, homeRoomDelete, homeConnectionPatch,
     homeConnectionDelete, homeConnectionRoomPut, catalogProvidersGet,
     catalogConnectionsGet, googleGet, googleDelete, googleCallbackGet,
     googleAuthorizationPost, googleCalendarsGet, googleEventsGet, googleEventsPost,
     googleEventPut, googleEventDelete, homeAssistantGet, homeAssistantDelete,
     homeAssistantProbePost, homeAssistantConnectPost, homeAssistantSyncPost,
     nanoleafDiscoverGet, nanoleafConnectionsGet, nanoleafConnectionsPost,
     nanoleafConnectionPatch, nanoleafConnectionDelete, nanoleafBrightnessPut,
     nanoleafColorPut, nanoleafTemperaturePut, nanoleafPowerPut, nanoleafSceneSelectPut,
     nanoleafScenesGet, nanoleafStateGet, networkDiscoverPost, shellyConnectionsPost,
     spotifyGet, spotifyDelete, spotifyCallbackGet, spotifyDevicesGet, spotifyPlaybackGet,
     spotifyPlaybackPut, spotifyPlaylistPut, spotifyPlaybackDevicePut, spotifyPlaylistsGet,
     youtubeEmbedPost, youtubePlayPost, memoryGet, memoryPost, memoryConfirmPost,
     memoryRejectPost, memoryValidityPatch, memoryContextGet, memoryContextSettingsPut,
     memorySettingsPut, modelsGet, modelsBenchmarkPost, rbacGet, rbacUsersGet,
     rbacUserRolesPut, rbacUserEnabledPut, rbacRolesPost, rbacRolePut, rbacRoleDelete,
     retentionGet, retentionPut, retentionCleanupPost, retentionPreviewGet,
     spaceInvitationDelete, speechSynthesizePost, speechVoicesGet, statusGet,
     systemServicesGet}

HandlersOf(slot) == IF slot = "account" THEN AccountHandlers ELSE ApiHandlers

(***************************************************************************)
(* Calls.  A call carries the cookies and the header the browser had when  *)
(* it was sent; content says what is wrong with its path and body, stale   *)
(* that its session was over by then.                                      *)
(***************************************************************************)
ApiSlots == {"page", "account"}

NoCall ==
    [handler |-> authMeGet, token |-> 0, stale |-> FALSE, csrf |-> FALSE, content |-> "good",
     guards |-> << >>, work |-> "none", heard |-> "nothing", issued |-> 0, answer |-> "unsent"]

Contents(h) ==
    {"good"} \cup (IF \E i \in DOMAIN h.guards : h.guards[i] = "input"
                    THEN {"invalid"} ELSE {})
             \cup (IF \E i \in DOMAIN h.guards : h.guards[i] = "parse"
                    THEN {"broken"} ELSE {})

Open(slot) == apiCalls[slot].answer = "none"

Forwarded(slot) ==
    /\ apiCalls[slot].answer # "unsent"
    /\ apiCalls[slot].guards = << >>
    /\ apiCalls[slot].handler.effect # "none"

\* The service has not finished: it has not looked, has let the call in, or
\* has done a part of the work.
Unfinished == {"none", "accepted", "begun"}

\* An answered call that Core has finished with, or never saw, forgets the
\* request it carried.
Remembered(call) ==
    IF \/ call.answer = "none"
       \/ /\ call.guards = << >> /\ call.handler.effect # "none"
          /\ call.work \in Unfinished
    THEN call
    ELSE [call EXCEPT !.token = 0, !.stale = FALSE, !.csrf = FALSE, !.content = "good"]

ApiAnswer(slot, answer, heard) ==
    apiCalls' = [apiCalls EXCEPT
        ![slot] = Remembered([@ EXCEPT !.answer = answer, !.heard = heard])]

WebApiInit ==
    /\ jar \in [session : {0, 1}, csrf : BOOLEAN]
    /\ live = {1}
    /\ apiCalls = [slot \in ApiSlots |-> NoCall]

(***************************************************************************)
(* The page reads the CSRF cookie into its header; a request from anywhere *)
(* else comes without it, which matters where a guard looks at it.  A read,*)
(* and a call that a guard is bound to refuse, changes nothing another     *)
(* call could notice, so only calls that may change something overlap.     *)
(***************************************************************************)
LooksAtHeader(guards) == \E i \in DOMAIN guards : guards[i] = "csrf"
Headers(h) == {FALSE} \cup (IF LooksAtHeader(h.guards) THEN {jar.csrf} ELSE {})

MayChange(call) ==
    /\ call.handler.effect # "read" /\ call.content = "good"
    /\ LooksAtHeader(call.guards) => call.csrf

SendCall(slot) ==
    /\ apiCalls[slot] = NoCall
    /\ \E h \in HandlersOf(slot) : \E csrf \in Headers(h), content \in Contents(h) :
         apiCalls' = [apiCalls EXCEPT ![slot] =
             [NoCall EXCEPT !.handler = h, !.token = jar.session,
                            !.stale = jar.session \notin live, !.csrf = csrf,
                            !.content = content, !.guards = h.guards, !.answer = "none"]]
    /\ \A one, other \in ApiSlots :
         (one # other /\ apiCalls'[one].answer # "unsent") => MayChange(apiCalls'[other])
    /\ UNCHANGED <<jar, live>>

(***************************************************************************)
(* The guards, in the handler's order.  Core looks the session up; when it *)
(* cannot, the answer is 503 and never 401.                                *)
(***************************************************************************)
lookupUser(call) ==
    IF call.token = 0 THEN {"refused"}
    ELSE {IF call.token \in live THEN "passes" ELSE "refused", "unavailable"}

requireApiSession(call) == lookupUser(call)

csrfIsValid(call) == {IF call.csrf THEN "passes" ELSE "refused"}

GuardOutcomes(call) ==
    CASE Head(call.guards) = "session" -> requireApiSession(call)
      [] Head(call.guards) = "csrf" -> csrfIsValid(call)
      [] Head(call.guards) = "parse" ->
            {IF call.content = "broken" THEN "unavailable" ELSE "passes"}
      [] OTHER -> {IF call.content = "good" THEN "passes" ELSE "refused"}

CheckGuard(slot) ==
    /\ Open(slot)
    /\ apiCalls[slot].guards # << >>
    /\ \E outcome \in GuardOutcomes(apiCalls[slot]) :
         IF outcome = "passes"
         THEN apiCalls' = [apiCalls EXCEPT ![slot].guards = Tail(@)]
         ELSE ApiAnswer(slot, outcome, "nothing")
    /\ UNCHANGED <<jar, live>>

\* Two handlers ask nobody; one of them hands out a first CSRF cookie.
AnswersItself(slot) ==
    /\ Open(slot)
    /\ apiCalls[slot].guards = << >>
    /\ apiCalls[slot].handler.effect = "none"
    /\ ApiAnswer(slot, "done", "nothing")
    /\ jar' = IF apiCalls[slot].handler.cookies = "csrf" THEN [jar EXCEPT !.csrf = TRUE] ELSE jar
    /\ UNCHANGED live

(***************************************************************************)
(* The service behind the handler.  Core authenticates the token again     *)
(* before its controller runs, and no more when the work is done: the      *)
(* session may end in between.  A password change looks once more under    *)
(* the lock of its workspace, so that two of them follow one another.      *)
(* Core may finish long after the handler has given up waiting.            *)
(***************************************************************************)
NeedsSession(h) == \E i \in DOMAIN h.guards : h.guards[i] = "session"

FreshToken == 1 + Cardinality({slot \in ApiSlots : apiCalls[slot].issued # 0}) + 1

HoldsIdentity(call) == call.handler.effect = "rotate" /\ call.work = "accepted"

CoreAccepts(slot) ==
    LET call == apiCalls[slot]
    IN  /\ Forwarded(slot)
        /\ call.work = "none"
        /\ NeedsSession(call.handler) => call.token \in live
        /\ call.handler.effect = "rotate" =>
              \A other \in ApiSlots : ~HoldsIdentity(apiCalls[other])
        /\ apiCalls' = [apiCalls EXCEPT ![slot].work = "accepted"]
        /\ UNCHANGED <<jar, live>>

Worked(slot, work, issued) ==
    apiCalls' = [apiCalls EXCEPT
        ![slot] = Remembered([@ EXCEPT !.work = work, !.issued = issued])]

WorkIsDone(slot) ==
    LET call == apiCalls[slot]
        issued == IF call.handler.effect \in {"signIn", "rotate"} THEN FreshToken ELSE 0
    IN  /\ call.work = IF call.handler.effect = "steps" THEN "begun" ELSE "accepted"
        /\ Worked(slot, "done", issued)
        /\ CASE call.handler.effect = "signIn" -> live' = live \cup {issued}
             [] call.handler.effect = "rotate" -> live' = {issued}
             [] call.handler.effect = "signOut" -> live' = live \ {call.token}
             [] call.handler.effect = "revoke" ->
                    \E token \in live \ {call.token} : live' = live \ {token}
             [] OTHER -> UNCHANGED live

\* Short of done: turned away, broken down, a first part committed, or
\* stopped after it.
WorkOutcomes(call) ==
    CASE call.work = "none" -> {"refused", "failed"}
      [] call.work = "accepted" ->
            {"refused", "failed"} \cup (IF call.handler.effect = "steps" THEN {"begun"} ELSE {})
      [] call.work = "begun" -> {"stopped", "failed"}
      [] OTHER -> {}

ServiceHandles(slot) ==
    /\ Forwarded(slot)
    /\ \/ WorkIsDone(slot)
       \/ \E outcome \in WorkOutcomes(apiCalls[slot]) :
             Worked(slot, outcome, 0) /\ UNCHANGED live
    /\ UNCHANGED jar

\* A session expires, or is ended from another browser or by an administrator.
SessionEnds ==
    /\ \E token \in live : live' = live \ {token}
    /\ UNCHANGED <<jar, apiCalls>>

(***************************************************************************)
(* Reply to answer.  A reply's body is a value, something the handler's    *)
(* contract does not recognise (strange) or empty.                         *)
(***************************************************************************)
ReplyBodies(call) ==
    IF call.work = "done"
    THEN IF call.handler.acknowledges = "empty" THEN {"empty"} ELSE {"value", "strange"}
    ELSE {"value", "empty"}

ForgetsTheStatus(work) == "done"    \* mutant
StatusOf(work) ==
    CASE work = "failed" -> "unavailable"
      [] work = "stopped" -> "refused"
      [] OTHER -> work

Parsed(heard, answer) == IF heard = "empty" THEN "unavailable" ELSE answer

\* A 204 relayed with a body, even an empty one, is no legal response.
Copied(work, heard) ==
    IF work = "done" /\ heard = "empty" THEN "unavailable" ELSE StatusOf(work)

Recognised(work, heard) ==
    IF work = "done" THEN (IF heard = "value" THEN "done" ELSE "unavailable") ELSE StatusOf(work)

Answer(answers, work, heard) ==
    CASE answers \in {"always", "accepts"} -> "done"
      [] answers \in {"relays", "acknowledges", "streams"} -> StatusOf(work)
      [] answers = "parses" -> Parsed(heard, StatusOf(work))
      [] answers = "acknowledgesOrParses" ->
            IF work = "done" THEN "done" ELSE Parsed(heard, StatusOf(work))
      [] answers = "copies" -> Copied(work, heard)
      [] answers = "strictOrRelays" -> Recognised(work, heard)
      [] answers = "strict" -> Parsed(heard, Recognised(work, heard))
      [] answers = "checks" ->
            IF work = "done" /\ heard = "value" THEN "done" ELSE "unavailable"
      [] answers = "lists" -> IF heard = "strange" THEN "unavailable" ELSE StatusOf(work)
      [] answers = "redirects" -> IF work = "done" THEN "done" ELSE "unavailable"

(***************************************************************************)
(* Cookies.  A session in the reply is set together with a new CSRF value; *)
(* signing out clears both whatever Core said; starting the Spotify        *)
(* authorisation sets the session cookie again to the call's own token.    *)
(***************************************************************************)
setAuthCookies(token) == jar' = [session |-> token, csrf |-> TRUE]
clearAuthCookies == jar' = [session |-> 0, csrf |-> FALSE]

SetCookies(call, answer) ==
    CASE call.handler.cookies = "set" /\ answer = "done" -> setAuthCookies(call.issued)
      [] call.handler.cookies = "cleared" -> clearAuthCookies
      [] call.handler.cookies = "restored" /\ call.work = "done" ->
            jar' = [jar EXCEPT !.session = call.token]
      [] OTHER -> UNCHANGED jar

ReplyArrives(slot) ==
    /\ Open(slot)
    /\ Forwarded(slot)
    /\ apiCalls[slot].work \notin Unfinished
    /\ \E heard \in ReplyBodies(apiCalls[slot]) :
         LET answer == Answer(apiCalls[slot].handler.answers, apiCalls[slot].work, heard)
         IN  /\ ApiAnswer(slot, answer, heard)
             /\ SetCookies(apiCalls[slot], answer)
    /\ UNCHANGED live

\* The connection breaks or the handler's timeout ends the wait.
ReplyIsLost(slot) ==
    /\ Open(slot)
    /\ Forwarded(slot)
    /\ ApiAnswer(slot, IF apiCalls[slot].handler.answers = "always" THEN "done" ELSE "unavailable",
                 "nothing")
    /\ IF apiCalls[slot].handler.cookies = "cleared" THEN clearAuthCookies ELSE UNCHANGED jar
    /\ UNCHANGED live

WebApiProgress ==
    \E slot \in ApiSlots : \/ CheckGuard(slot) \/ AnswersItself(slot)
                           \/ ReplyArrives(slot) \/ ReplyIsLost(slot)

WebApiNext ==
    \/ WebApiProgress
    \/ \E slot \in ApiSlots : SendCall(slot) \/ CoreAccepts(slot) \/ ServiceHandles(slot)
    \/ SessionEnds

WebApiBusy == \E slot \in ApiSlots : Open(slot)

(***************************************************************************)
(* Properties.                                                             *)
(***************************************************************************)
WebApiTypeOK ==
    /\ jar \in [session : 0 .. 3, csrf : BOOLEAN]
    /\ live \subseteq 1 .. 3
    /\ \A slot \in ApiSlots :
         LET call == apiCalls[slot]
         IN  /\ call.handler \in ApiHandlers
             /\ call.token \in 0 .. 3 /\ call.issued \in 0 .. 3
             /\ call.csrf \in BOOLEAN /\ call.stale \in BOOLEAN
             /\ call.content \in {"good", "invalid", "broken"}
             /\ call.guards \in {SubSeq(call.handler.guards, n, Len(call.handler.guards)) :
                                     n \in 1 .. Len(call.handler.guards) + 1}
             /\ call.work \in Unfinished \cup {"done", "refused", "stopped", "failed"}
             /\ call.heard \in {"nothing", "value", "strange", "empty"}
             /\ call.answer \in {"unsent", "none", "done", "refused", "unavailable"}

\* Handlers that work without a session: their caller has none yet, or
\* proves itself to the service behind with a code or key of its own.
PublicHandlers ==
    {authLoginPost, authRegisterPost, authSetupPost, authRegistrationEmailPost, devRecoveryPost}

\* What changes at Core was asked for with a matching CSRF header (an OAuth
\* callback: with the code and state of the flow instead) and with a session
\* that was not yet over when the browser sent the call, whichever way round
\* a handler checks them, whatever the cookies became since, and whatever
\* sign-outs, password changes and expiries fell in between. A session that
\* ends after Core has let the call in does not stop the write.
WritesAreAuthorised ==
    [][\A slot \in ApiSlots :
         LET call == apiCalls[slot]
         IN  (/\ apiCalls'[slot].work \in {"begun", "done"} /\ call.work # apiCalls'[slot].work
              /\ call.handler.effect # "read" /\ call.handler \notin PublicHandlers)
             => /\ ~call.stale
                /\ IF call.handler.answers = "redirects" THEN call.content = "good" ELSE call.csrf
      ]_apiVars

\* A refusal is final: a call answered with a 4xx was not done and will not
\* be; only where the work is committed in steps may a part of it stand.  A
\* call answered with success was done, except where the handler answers so
\* on purpose: sign-out and the registration e-mail.
AnswersAreHonest ==
    \A slot \in ApiSlots :
        LET call == apiCalls[slot]
        IN  call.handler.effect \notin {"read", "none"} =>
              /\ call.answer = "refused" =>
                    /\ call.work \notin {"accepted", "begun", "done"}
                    /\ call.work = "stopped" => call.handler.effect = "steps"
              /\ call.answer = "done" => call.work = "done" \/ call.handler.answers = "accepts"

\* Completed work is never turned into a 5xx because its acknowledgement is
\* empty; the role routes, which copy a 204, are left out (see the README).
CompletedWorkIsReported ==
    \A slot \in ApiSlots :
        LET call == apiCalls[slot]
        IN  (call.work = "done" /\ call.heard \in {"value", "empty"}
                /\ call.handler \notin {rbacUserRolesPut, rbacUserEnabledPut, rbacRoleDelete})
            => call.answer = "done"

=============================================================================
