-------------------------------- MODULE AppShell --------------------------------
(***************************************************************************)
(* The frame every page is shown in (components/app-shell.tsx): which page *)
(* is shown, the conversation list of the sidebar with its rename and      *)
(* delete forms, the model catalogue and the selected model, the voices    *)
(* and the selected voice, the state of the AI service. Effects start and  *)
(* dispose loads when the page changes; renames and deletions run on       *)
(* through it. The record shell is what the component and the browser's    *)
(* storage hold, sidebar the conversations at Core and the requests.       *)
(***************************************************************************)
EXTENDS Naturals, Sequences, FiniteSets

CONSTANT MaxShellEvents  \* what the user does and the catalogue and the voices change, altogether

ASSUME ShellEventsAssumption == MaxShellEvents \in Nat

VARIABLES shell, sidebar

shellVars == <<shell, sidebar>>

Chats == {"a", "b"}
Pages == Chats \cup {"chat", "models", "voice", "home"}  \* a chat stands for its own page
Locales == {"de", "en"}
Models == {"small", "large"}
Catalogs == {{"small"}, Models}                  \* the default model, "small", is always in it
Untitled == [c \in Chats |-> 0]

isChatPage(page) == page \in Chats \cup {"chat"}
needsModels(page) == isChatPage(page) \/ page = "models"

ShellTypeOK ==
    /\ shell \in [page: Pages, status: {"loading", "ready", "error"}, items: SUBSET Chats,
                  titles: [Chats -> 0 .. 1], editing: Chats \cup {"none"},
                  confirming: Chats \cup {"none"},
                  catalog: {{}} \cup Catalogs, ready: SUBSET Models,
                  model: Models \cup {"auto", "none"}, savedModel: Models \cup {"auto", "none"},
                  locale: Locales, voices: 0 .. 2, voice: 0 .. 2, savedVoice: [Locales -> 0 .. 2],
                  ai: {"checking", "ready", "unavailable"}, events: 0 .. MaxShellEvents]
    /\ sidebar.stored \subseteq Chats /\ sidebar.titles \in [Chats -> 0 .. 1]
    /\ \A r \in sidebar.requests : r.kind \in {"list", "catalog", "ai", "rename", "delete"}

ShellInit ==
    /\ shell = [page |-> "home", status |-> "loading", items |-> {}, titles |-> Untitled,
                editing |-> "none", confirming |-> "none", catalog |-> {}, ready |-> {},
                model |-> "none", savedModel |-> "none", locale |-> "de",
                voices |-> 0, voice |-> 0,
                savedVoice |-> [l \in Locales |-> 0], ai |-> "checking", events |-> 0]
    /\ sidebar = [stored |-> {"a"}, titles |-> Untitled, requests |-> {}]

(***************************************************************************)
(* Requests. A request has been answered when its answer is not "none".    *)
(* Those of an effect that was disposed change nothing when they return:   *)
(* they are dropped with it.                                               *)
(***************************************************************************)
Asked(kind) == [kind |-> kind, chat |-> "none", active |-> FALSE, answer |-> "none",
                items |-> {}, titles |-> Untitled]

Effects(page) == (IF isChatPage(page) THEN {"list", "ai"} ELSE {})
                     \cup (IF needsModels(page) THEN {"catalog"} ELSE {})

\* The requests after the effects of a change of page have run.
Rerouted(requests, from, to) ==
    {r \in requests : r.kind \in Effects(to) \cup {"rename", "delete"}}
        \cup {Asked(kind) : kind \in Effects(to) \ Effects(from)}

ShellRoom == shell.events < MaxShellEvents
PaidShell == [shell EXCEPT !.events = @ + 1]

\* Following a link, or router.replace.
Navigate(page) ==
    /\ ShellRoom /\ page # shell.page
    /\ page \in Chats => page \in shell.items
    /\ shell' = [PaidShell EXCEPT !.page = page]
    /\ sidebar' = [sidebar EXCEPT !.requests = Rerouted(@, shell.page, page)]

(***************************************************************************)
(* The conversation list, loaded by the effect and after a turn of the     *)
(* chat page has stored a conversation, whatever other load is under way.  *)
(***************************************************************************)
TurnIsStored ==
    /\ ShellRoom /\ isChatPage(shell.page)
    /\ "b" \notin sidebar.stored
    /\ shell' = PaidShell
    /\ sidebar' = [sidebar EXCEPT !.stored = @ \cup {"b"}, !.requests = @ \cup {Asked("list")}]

Done(r) == sidebar' = [sidebar EXCEPT !.requests = @ \ {r}]

CoreLists(r) ==
    /\ r.kind = "list" /\ r.answer = "none"
    /\ sidebar' = [sidebar EXCEPT !.requests =
            (@ \ {r}) \cup {[r EXCEPT !.answer = "ok", !.items = sidebar.stored,
                                      !.titles = sidebar.titles]}]
    /\ UNCHANGED shell

loadConversations(r) ==
    /\ r.kind = "list" /\ r.answer = "ok"
    /\ shell' = [shell EXCEPT !.items = r.items, !.titles = r.titles, !.status = "ready"]
    /\ Done(r)

ListFails(r) ==
    /\ r.kind = "list"
    /\ shell' = [shell EXCEPT !.status = "error"]
    /\ Done(r)

(***************************************************************************)
(* Renaming and deleting. Nothing keeps the user from starting another     *)
(* while one is under way.                                                 *)
(***************************************************************************)
beginRename(c) ==
    /\ ShellRoom /\ isChatPage(shell.page) /\ c \in shell.items
    /\ shell' = [PaidShell EXCEPT !.editing = c, !.confirming = "none"]
    /\ UNCHANGED sidebar

AskToDelete(c) ==
    /\ ShellRoom /\ isChatPage(shell.page) /\ c \in shell.items
    /\ shell' = [PaidShell EXCEPT !.editing = "none", !.confirming = c]
    /\ UNCHANGED sidebar

\* The page the request leaves from is the one its answer will compare with.
Submit(kind, c) ==
    /\ ShellRoom /\ isChatPage(shell.page)
    /\ c = (IF kind = "rename" THEN shell.editing ELSE shell.confirming) /\ c \in shell.items
    /\ shell' = PaidShell
    /\ sidebar' = [sidebar EXCEPT !.requests =
            @ \cup {[Asked(kind) EXCEPT !.chat = c, !.active = shell.page = c]}]

\* Core renames or deletes what it still has; otherwise the answer is not ok.
CoreChanges(r) ==
    /\ r.kind \in {"rename", "delete"} /\ r.answer = "none"
    /\ LET has == r.chat \in sidebar.stored
           after == (sidebar.requests \ {r})
                        \cup {[r EXCEPT !.answer = IF has THEN "ok" ELSE "refused"]}
       IN  sidebar' = [sidebar EXCEPT !.requests = after,
               !.titles = IF has /\ r.kind = "rename" THEN [@ EXCEPT ![r.chat] = 1] ELSE @,
               !.stored = IF r.kind = "delete" THEN @ \ {r.chat} ELSE @]
    /\ UNCHANGED shell

ChangeRefused(r) ==
    /\ r.kind \in {"rename", "delete"} /\ r.answer # "ok"
    /\ shell' = [shell EXCEPT !.status = "error"]
    /\ Done(r)

\* fetch throws and nobody catches it: nothing changes.
ChangeLost(r) == r.kind \in {"rename", "delete"} /\ Done(r) /\ UNCHANGED shell

renameConversation(r) ==
    /\ r.kind = "rename" /\ r.answer = "ok"
    /\ shell' = [shell EXCEPT !.editing = "none",
            !.titles = IF r.chat \in shell.items THEN [@ EXCEPT ![r.chat] = 1] ELSE @]
    /\ Done(r)

deleteConversation(r) ==
    /\ r.kind = "delete" /\ r.answer = "ok"
    /\ LET page == IF r.active THEN "chat" ELSE shell.page
       IN  /\ shell' = [shell EXCEPT !.items = @ \ {r.chat}, !.titles[r.chat] = 0,
                                     !.confirming = "none", !.page = page]
           /\ sidebar' = [sidebar EXCEPT !.requests = Rerouted(@ \ {r}, shell.page, page)]

(***************************************************************************)
(* The model. The saved choice is read when the catalogue arrives; storage *)
(* accepts what is written (blocked storage is left out). The AI service   *)
(* lists models that cannot be used as well, the default one included: not *)
(* pulled, disabled, or of a provider that is down. Only those that are    *)
(* ready can be chosen, but the saved choice is taken if it is listed.     *)
(***************************************************************************)
KeepsSelection(r) ==  \* mutant
    /\ r.kind = "catalog"
    /\ \E listed \in Catalogs : \E ready \in SUBSET listed :
         shell' = [shell EXCEPT !.catalog = listed, !.ready = ready,
                                !.model = IF @ = "none" THEN "small" ELSE @]
    /\ Done(r)

loadModels(r) ==
    /\ r.kind = "catalog"
    /\ \E listed \in Catalogs : \E ready \in SUBSET listed :
         shell' = [shell EXCEPT !.catalog = listed, !.ready = ready,
             !.model = IF shell.savedModel \in listed \cup {"auto"} THEN shell.savedModel ELSE "small"]
    /\ Done(r)

CatalogFails(r) ==
    /\ r.kind = "catalog"
    /\ shell' = [shell EXCEPT !.catalog = {}, !.ready = {}, !.model = "none"]
    /\ Done(r)

selectModel(m) ==
    /\ ShellRoom /\ shell.page = "models" /\ m # shell.model
    /\ m = "auto" \/ m \in shell.ready
    /\ shell' = [PaidShell EXCEPT !.model = m, !.savedModel = m]
    /\ UNCHANGED sidebar

(***************************************************************************)
(* Voices. The browser lists them when it has them: the voices of a locale *)
(* are 1 .. shell.voices, the last of them the preferred one. An effect    *)
(* chooses again when the locale or the list has changed.                  *)
(***************************************************************************)
ChosenVoice(s) == IF s.savedVoice[s.locale] \in 1 .. s.voices THEN s.savedVoice[s.locale] ELSE s.voices

Chosen(s) == [s EXCEPT !.voice = ChosenVoice(s)]

loadVoices ==
    /\ ShellRoom
    /\ \E n \in {1, 2} \ {shell.voices} : shell' = Chosen([PaidShell EXCEPT !.voices = n])
    /\ UNCHANGED sidebar

toggleLocale ==
    /\ ShellRoom
    /\ shell' = Chosen([PaidShell EXCEPT !.locale = IF @ = "de" THEN "en" ELSE "de"])
    /\ UNCHANGED sidebar

selectVoice(v) ==
    /\ ShellRoom /\ shell.page = "voice"
    /\ v \in (1 .. shell.voices) \ {shell.voice}
    /\ shell' = [PaidShell EXCEPT !.voice = v, !.savedVoice[shell.locale] = v]
    /\ UNCHANGED sidebar

(***************************************************************************)
(* The state of the AI service, asked for at once and then every 30 s.     *)
(***************************************************************************)
AskAgain ==
    /\ ShellRoom /\ isChatPage(shell.page)
    /\ shell' = PaidShell
    /\ sidebar' = [sidebar EXCEPT !.requests = @ \cup {Asked("ai")}]

refreshAiStatus(r) ==
    /\ r.kind = "ai"
    /\ shell' \in {[shell EXCEPT !.ai = s] : s \in {"ready", "unavailable"}}
    /\ Done(r)

ShellProgress ==
    \E r \in sidebar.requests :
        \/ CoreLists(r) \/ loadConversations(r) \/ ListFails(r)
        \/ CoreChanges(r) \/ ChangeRefused(r) \/ ChangeLost(r)
        \/ renameConversation(r) \/ deleteConversation(r)
        \/ loadModels(r) \/ CatalogFails(r) \/ refreshAiStatus(r)

ShellNext ==
    \/ ShellProgress
    \/ \E page \in Pages : Navigate(page)
    \/ \E c \in Chats : \/ beginRename(c) \/ AskToDelete(c)
                        \/ Submit("rename", c) \/ Submit("delete", c)
    \/ \E m \in Models \cup {"auto"} : selectModel(m)
    \/ \E v \in 1 .. 2 : selectVoice(v)
    \/ TurnIsStored \/ loadVoices \/ toggleLocale \/ AskAgain

ShellBusy == isChatPage(shell.page) /\ shell.status = "loading"

-----------------------------------------------------------------------------
\* The model that was chosen and saved is the one used whenever the catalogue lists it
\* ("auto" needs no listing), and the one used is listed; a model that is not ready, which
\* nobody can choose, is used only because it was saved when it was ready or because it is
\* the default. The saved voice is the one used whenever the browser has it, and the one used
\* is among the voices of the locale. All this whichever loads of the catalogue, lists of
\* voices and changes of page and locale came between.
SelectionIsSaved ==
    /\ shell.catalog # {} =>
         /\ shell.model \in shell.catalog \cup {"auto"}
         /\ shell.savedModel \in shell.catalog \cup {"auto"} => shell.model = shell.savedModel
         /\ shell.model \in shell.ready \cup {"auto", "small", shell.savedModel}
    /\ shell.voices > 0 =>
         /\ shell.voice \in 1 .. shell.voices
         /\ shell.savedVoice[shell.locale] \in 1 .. shell.voices
                => shell.voice = shell.savedVoice[shell.locale]

=============================================================================
