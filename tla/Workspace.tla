------------------------------- MODULE Workspace -------------------------------
(***************************************************************************)
(* The parts of the web application beside the chat view: the frame of     *)
(* every page, the voice dialogue, the devices page, the other pages and   *)
(* panels, and the route handlers they call; and the website's contact     *)
(* form. They share no state: what one page tells another goes through     *)
(* Core. So each is examined alone, in the environment its module gives    *)
(* it; the variable part says which one it is, and the others rest in a    *)
(* fixed initial state.                                                    *)
(***************************************************************************)
EXTENDS VoiceMode, DevicesPage, WebApi, AppShell, Panels, Contact

VARIABLE part

Parts == {"shell", "voice", "devices", "panels", "api", "contact"}

pageVars == <<part, voice, chat, home, devices, loads, writes, commands,
              jar, live, apiCalls, shell, sidebar, panel,
              site, form, submissions, mailbox>>

\* A part that is not examined rests where it starts, at its first opening.
AtRest(p) ==
    /\ p # "shell" => ShellInit
    /\ p # "voice" => VoiceInit /\ voice.supported /\ voice.handled = 0 /\ ~chat.streaming
    /\ p # "devices" => DevicesInit /\ ~devices.loaded
    /\ p # "panels" => PanelsInit /\ panel.kind = ActivityPage
    /\ p # "api" => WebApiInit /\ jar = [session |-> 1, csrf |-> FALSE]
    /\ p # "contact" => ContactInit /\ site = [origin |-> "own", smtp |-> TRUE]

Examined(p) ==
    CASE p = "shell" -> ShellInit
      [] p = "voice" -> VoiceInit
      [] p = "devices" -> DevicesInit
      [] p = "panels" -> PanelsInit
      [] p = "api" -> WebApiInit
      [] p = "contact" -> ContactInit

Init == part \in Parts /\ AtRest(part) /\ Examined(part)

OthersRest ==
    /\ part # "shell" => UNCHANGED shellVars
    /\ part # "voice" => UNCHANGED voiceVars
    /\ part # "devices" => UNCHANGED deviceVars
    /\ part # "panels" => UNCHANGED panel
    /\ part # "api" => UNCHANGED apiVars
    /\ part # "contact" => UNCHANGED contactVars

Only(p, step) == part = p /\ step /\ UNCHANGED part /\ OthersRest

ShellStep == Only("shell", ShellNext)
VoiceStep == Only("voice", VoiceNext)
DevicesStep == Only("devices", DevicesNext)
PanelsStep == Only("panels", PanelsNext)
ApiStep == Only("api", WebApiNext)
ContactStep == Only("contact", ContactNext)

Next == ShellStep \/ VoiceStep \/ DevicesStep \/ PanelsStep \/ ApiStep \/ ContactStep

\* What the browser, the network and the services do by themselves.
Progress ==
    \/ Only("shell", ShellProgress)
    \/ Only("voice", VoiceProgress)
    \/ Only("devices", DevicesProgress)
    \/ Only("panels", PanelsProgress)
    \/ Only("api", WebApiProgress)
    \/ Only("contact", ContactProgress)

Spec == Init /\ [][Next]_pageVars /\ WF_pageVars(Progress)

-----------------------------------------------------------------------------
(* Properties; those of a single part are stated in its module. *)

PagesTypeOK ==
    /\ part \in Parts
    /\ ShellTypeOK /\ VoiceTypeOK /\ DevicesTypeOK /\ PanelsTypeOK /\ WebApiTypeOK
    /\ ContactTypeOK

\* Something the user waits for: the first list of conversations, an answer to
\* be spoken, a page whose buttons are disabled, a call without an answer.
PagesBusy ==
    CASE part = "shell" -> ShellBusy
      [] part = "voice" -> VoiceBusy
      [] part = "devices" -> DevicesBusy
      [] part = "panels" -> PanelsBusy
      [] part = "api" -> WebApiBusy
      [] part = "contact" -> ContactBusy

\* Whatever fails, is lost or superseded, no page waits for ever: spinners end,
\* disabled buttons are enabled again, the dialogue listens, calls are answered.
PagesSettle == PagesBusy ~> ~PagesBusy

===============================================================================
