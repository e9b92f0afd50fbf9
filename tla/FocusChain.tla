----------------------------- MODULE FocusChain -----------------------------
(***************************************************************************)
(* kwin's focus chains (focuschain.cpp) and the parts of Workspace, Client *)
(* and VirtualDesktopManager that keep them in step: a list of windows for *)
(* every virtual desktop, and one of all windows, in the order in which    *)
(* they were used.  A window is added, minimized, moved to a desktop, made *)
(* a hidden tab, activated, restacked and destroyed; desktops are switched *)
(* and their number changes.  Each action is the handler of one event of   *)
(* the X server or one call of the user's, with all it calls in kwin.      *)
(*                                                                         *)
(* The last element of a chain is its first window in the sense of the     *)
(* header: the most recently used one.                                     *)
(*                                                                         *)
(* Left out: transients and dialogs, shading, screens, desktop windows,    *)
(* the geometry and the layers of the stack (where they decide, the model  *)
(* chooses), and the focus policies other than the default.                *)
(***************************************************************************)
EXTENDS Naturals, Sequences, FiniteSets, SequencesExt

CONSTANTS
    None,           \* no window: NULL
    Clients,        \* the windows there may be
    Applications,   \* a partition of Clients: Client::belongToSameApplication
    Tabs,           \* bound: the windows that may be grouped as tabs,
    Fickle,         \* bound: ... and that may not want the focus
    MaxDesktops     \* bound: VirtualDesktopManager::maximum()

ASSUME ClientsAssumption == None \notin Clients /\ MaxDesktops \in Nat \ {0}
ASSUME ApplicationsPartition ==
    /\ UNION Applications = Clients
    /\ \A p, q \in Applications : p # q => p \cap q = {}

VARIABLES
    clients,    \* Workspace::clients
    desk,       \* Client::desk, or AllDesktops
    minimized,  \* the windows that are minimized,
    hidden,     \* ... that are a tab behind another one: Client::hidden,
    input,      \* ... and that want the focus: wantsTabFocus()
    active,     \* Workspace::active_client, and m_activeClient of FocusChain
    asked,      \* should_get_focus.last(): who was told to take the focus
    current,    \* VirtualDesktopManager::m_current and m_currentDesktop
    count,      \* VirtualDesktopManager::m_count
    chains,     \* m_desktopFocusChains, and m_mostRecentlyUsed at Recent
    stale       \* history: whose wishes, or the desktops, changed since the
                \* last update() of the window

vars == <<clients, desk, minimized, hidden, input, active, asked, current,
          count, chains, stale>>

AllDesktops == 0    \* NET::OnAllDesktops
Recent == 0         \* the place of m_mostRecentlyUsed among the chains

OnDesktop(c, d) == desk[c] \in {AllDesktops, d}
Shown(c) == c \notin minimized \cup hidden      \* isShown(false)
SameApplication(c, k) == \E app \in Applications : {c, k} \subseteq app

-----------------------------------------------------------------------------
(* The operations on one chain *)

(* QList::removeAll: of the first i windows those that are kept *)
Removed(l, c) ==
    LET kept[i \in 0 .. Len(l)] ==
            IF i = 0 THEN <<>>
            ELSE IF l[i] = c THEN kept[i - 1] ELSE Append(kept[i - 1], l[i])
    IN  kept[Len(l)]

(* the place after the last window of the chain that is in S, or the end *)
Above(l, S) == 1 + Cardinality({i \in DOMAIN l : \E j \in i .. Len(l) : l[j] \in S})

(* makeFirstInChain(): a minimized window goes no further than the others  *)
(* that are minimized.                                                     *)
MakeFirstInChain(l, c) ==
    LET rest == Removed(l, c)
    IN  IF c \in minimized' THEN InsertAt(rest, Above(rest, minimized'), c)
                            ELSE Append(rest, c)

MakeLastInChain(l, c) == <<c>> \o Removed(l, c)

\* Bug: the active window is not looked at.
InsertClientIntoChainOnTop(l, c, act) == IF c \in ToSet(l) THEN l ELSE Append(l, c)

(* insertClientIntoChain(), with act the m_activeClient of the moment *)
InsertClientIntoChain(l, c, act) ==
    IF c \in ToSet(l) THEN l
    ELSE IF l # <<>> /\ act # c /\ Last(l) = act THEN InsertAt(l, Len(l), c)
    ELSE Append(l, c)

UpdateClientInChain(l, c, change, act) ==
    CASE change = "MakeFirst" -> MakeFirstInChain(l, c)
      [] change = "MakeLast"  -> MakeLastInChain(l, c)
      [] change = "Update"    -> InsertClientIntoChain(l, c, act)

(* moveAfterClientInChain(): next to the reference in an application, else *)
(* below the highest window of the reference's application.                *)
MoveAfterClientInChain(l, c, ref) ==
    LET rest == Removed(l, c)
        app == {k \in Clients : SameApplication(ref, k)}
    IN  IF ref \notin ToSet(l) THEN l
        ELSE IF c = ref THEN <<c>> \o rest
        ELSE InsertAt(rest, Above(rest, IF c \in app THEN {ref} ELSE app) - 1, c)

-----------------------------------------------------------------------------
(* The operations on all chains.  They look at the windows as they are     *)
(* after the event.                                                        *)

\* Bug: the window stays in the chains of other desktops.
UpdateKeep(ch, c, change, act) ==
    [d \in DOMAIN ch |->
        IF c \notin input' THEN Removed(ch[d], c)
        ELSE IF d = Recent \/ desk'[c] \in {AllDesktops, d}
             THEN UpdateClientInChain(ch[d], c, change, act)
        ELSE ch[d]]

(* update() *)
Update(ch, c, change, act) ==
    [d \in DOMAIN ch |->
        IF c \notin input' THEN Removed(ch[d], c)
        ELSE IF d = Recent \/ desk'[c] = d \/ (desk'[c] = AllDesktops /\ d = current')
             THEN UpdateClientInChain(ch[d], c, change, act)
        ELSE IF desk'[c] = AllDesktops THEN InsertClientIntoChain(ch[d], c, act)
        ELSE Removed(ch[d], c)]

Updated(c) == stale' = stale \ {c}      \* what update(c) sets right

(* moveAfterClient() *)
MoveAfterClient(ch, c, ref) ==
    [d \in DOMAIN ch |->
        IF c \in input' /\ (d = Recent \/ desk'[c] \in {AllDesktops, d})
        THEN MoveAfterClientInChain(ch[d], c, ref) ELSE ch[d]]

\* Bug: only one of the lists is cleared.
RemoveRecentOnly(ch, c) == [ch EXCEPT ![Recent] = Removed(@, c)]

(* remove() *)
RemoveClient(ch, c) == [d \in DOMAIN ch |-> Removed(ch[d], c)]

(* resize() *)
Resize(ch, newSize) ==
    [d \in {Recent} \cup 1 .. newSize |-> IF d \in DOMAIN ch THEN ch[d] ELSE <<>>]

\* Bug: a window that cannot be seen is usable.
IsUsableFocusCandidateHidden(c, prev) == c # prev /\ OnDesktop(c, current)

IsUsableFocusCandidate(c, prev) == c # prev /\ Shown(c) /\ OnDesktop(c, current)

(* nextForDesktop() *)
NextForDesktop(ch, reference, d) ==
    LET usable == {i \in DOMAIN ch[d] : IsUsableFocusCandidate(ch[d][i], reference)}
    IN  IF usable = {} THEN None
        ELSE ch[d][CHOOSE i \in usable : \A j \in usable : j <= i]

(* Workspace::restack(): the windows that may take the place of ref as the *)
(* reference; for a window of another application it is the lowest one of  *)
(* ref's application in the stack.                                         *)
References(c, ref) ==
    IF SameApplication(c, ref) THEN {ref} ELSE {k \in clients : SameApplication(ref, k)}

(* activateNextClient(c), called by clientHidden() *)
ActivateNextClient(c) ==
    /\ active' = IF c = active THEN None ELSE active
    /\ asked' = IF c \in {active, asked} THEN NextForDesktop(chains, c, current)'
                ELSE asked

-----------------------------------------------------------------------------
Init ==
    /\ clients = {}
    /\ desk = [c \in Clients |-> AllDesktops]
    /\ minimized = {} /\ hidden = {} /\ input = {} /\ stale = {}
    /\ active = None /\ asked = None
    /\ current = 1
    /\ count \in 1 .. MaxDesktops
    /\ chains = [d \in {Recent} \cup 1 .. count |-> <<>>]

(* A window appears: Client::manage(), then Workspace::addClient().  It    *)
(* may begin minimized; a visible one that may not take the focus is put   *)
(* under the active one.                                                   *)
Manage(c) ==
    /\ c \notin clients
    /\ UNCHANGED <<hidden, active, current, count, stale>>
    /\ clients' = clients \cup {c}
    /\ \E d \in {AllDesktops} \cup 1 .. count : desk' = [desk EXCEPT ![c] = d]
    /\ input' \in {input \cup {c}} \cup IF c \in Fickle THEN {input} ELSE {}
    /\ \/ /\ c \in input'
          /\ minimized' = minimized \cup {c}
          /\ asked' = asked
          /\ chains' = Update(Update(chains, c, "MakeFirst", active), c, "Update", active)
       \/ /\ minimized' = minimized
          /\ chains' = Update(chains, c, "Update", active)
          /\ asked' \in {asked} \cup IF OnDesktop(c, current)' /\ c \in input'
                                     THEN {c} ELSE {}
       \/ /\ minimized' = minimized
          /\ asked' = asked
          /\ active # None /\ desk'[c] \in {AllDesktops, current}
          /\ \E ref \in References(c, active) :
                chains' = Update(MoveAfterClient(chains, c, ref), c, "Update", active)

(* The window is withdrawn or destroyed: releaseWindow(), destroyClient(), *)
(* Workspace::removeClient().                                              *)
Release(c) ==
    /\ c \in clients
    /\ clients' = clients \ {c}
    /\ desk' = [desk EXCEPT ![c] = AllDesktops]
    /\ minimized' = minimized \ {c} /\ hidden' = hidden \ {c} /\ input' = input \ {c}
    /\ chains' = RemoveClient(chains, c)
    /\ Updated(c)
    /\ UNCHANGED <<current, count>>
    /\ ActivateNextClient(c)

(* MapRequest of a window that is managed already *)
MapRequest(c) ==
    /\ c \in clients
    /\ minimized' = minimized \ {c}
    /\ UNCHANGED <<clients, desk, hidden, input, active, asked, current, count>>
    /\ chains' = Update(chains, c, "Update", active)
    /\ Updated(c)

(* The window changes its WM_HINTS: getWMHints() tells no one. *)
GetWMHints(c) ==
    /\ c \in clients \cap Fickle
    /\ input' = IF c \in input THEN input \ {c} ELSE input \cup {c}
    /\ stale' = stale \cup {c}
    /\ UNCHANGED <<clients, desk, minimized, hidden, active, asked, current,
                   count, chains>>

Minimize(c) ==
    /\ c \in (clients \cap input) \ minimized
    /\ minimized' = minimized \cup {c}
    /\ UNCHANGED <<clients, desk, hidden, input, current, count>>
    /\ chains' = Update(chains, c, "MakeFirst", IF c = active THEN None ELSE active)
    /\ Updated(c)
    /\ ActivateNextClient(c)

Unminimize(c) ==
    /\ c \in minimized
    /\ minimized' = minimized \ {c}
    /\ UNCHANGED <<clients, desk, hidden, input, active, asked, current, count,
                   chains, stale>>

(* setClientShown(), by which TabGroup hides all tabs but one.  Only a     *)
(* window that is still its group's current tab when it is hidden is made  *)
(* the last one.                                                           *)
HideTab(c) ==
    /\ c \in (clients \cap Tabs) \ hidden
    /\ hidden' = hidden \cup {c}
    /\ UNCHANGED <<clients, desk, minimized, input, active, asked, current, count>>
    /\ \/ UNCHANGED <<chains, stale>>
       \/ chains' = Update(chains, c, "MakeLast", active) /\ Updated(c)

ShowTab(c) ==
    /\ c \in hidden
    /\ hidden' = hidden \ {c}
    /\ asked' = c
    /\ UNCHANGED <<clients, desk, minimized, input, active, current, count>>
    /\ chains' = Update(chains, c, "MakeFirst", active)
    /\ Updated(c)

(* Client::setDesktop(), and sendClientToDesktop() around it: the window   *)
(* may be put under the active one or told to take the focus.              *)
SetDesktop(c, d) ==
    /\ c \in clients /\ desk[c] # d
    /\ d \in {AllDesktops} \cup 1 .. count
    /\ desk' = [desk EXCEPT ![c] = d]
    /\ UNCHANGED <<clients, minimized, hidden, input, current, count>>
    /\ Updated(c)
    /\ LET moved == Update(chains, c, "MakeFirst", active)
       IN  IF d \in {AllDesktops, current}
           THEN \/ chains' = moved /\ UNCHANGED <<active, asked>>
                \/ /\ c \in input /\ Shown(c) /\ ~OnDesktop(c, current)
                   /\ chains' = moved /\ asked' = c /\ UNCHANGED active
                \/ /\ active \notin {None, c}
                   /\ \E ref \in References(c, active) : chains' = MoveAfterClient(moved, c, ref)
                   /\ UNCHANGED <<active, asked>>
           ELSE chains' = moved /\ ActivateNextClient(c)

(* The window gets the focus, on request or by a click: focusInEvent(),    *)
(* setActive(), Workspace::setActiveClient(), which first deactivates the  *)
(* window that was active.                                                 *)
FocusIn(c) ==
    /\ c \in clients /\ c # active
    /\ Shown(c) /\ OnDesktop(c, current)
    /\ active' = c
    /\ asked' = IF asked = c THEN None ELSE asked
    /\ UNCHANGED <<clients, desk, minimized, hidden, input, current, count>>
    /\ chains' = Update(chains, c, "MakeFirst", None)
    /\ Updated(c)

FocusOut ==
    /\ active # None
    /\ active' = None
    /\ UNCHANGED <<clients, desk, minimized, hidden, input, asked, current,
                   count, chains, stale>>

(* Client::restackWindow(): a window asks to be put next to another one *)
RestackWindow(c, ref) ==
    /\ {c, ref} \subseteq clients
    /\ UNCHANGED <<clients, desk, minimized, hidden, input, active, asked, current,
                   count, stale>>
    /\ \E k \in References(c, ref) : chains' = MoveAfterClient(chains, c, k)

(* VirtualDesktopManager::setCurrent(), slotCurrentDesktopChanged().  The  *)
(* user may switch while moving the active window, which comes along and   *)
(* stays active; otherwise getForActivation() is asked, which has no       *)
(* answer, and no window is active any more.                               *)
SetCurrent(d) ==
    /\ d \in 1 .. count \ {current}
    /\ current' = d
    /\ UNCHANGED <<clients, minimized, hidden, input, count>>
    /\ \E moving \in {None, active} :
          /\ IF moving = None \/ OnDesktop(moving, d) THEN UNCHANGED <<desk, chains, stale>>
             ELSE /\ desk' = [desk EXCEPT ![moving] = d]
                  /\ chains' = Update(chains, moving, "MakeFirst", active)
                  /\ Updated(moving)
          /\ IF moving # None /\ moving \in ToSet(chains'[d]) /\ Shown(moving)
             THEN active' = moving /\ asked' = moving
             ELSE /\ active' = None
                  /\ asked' = IF asked # None /\ desk'[asked] \in {AllDesktops, d}
                              THEN asked ELSE None

(* VirtualDesktopManager::setCount(): new desktops get empty chains; from  *)
(* desktops that go, the user is taken to the last one that stays, and     *)
(* moveClientsFromRemovedDesktops() sends the windows there, in the order  *)
(* of their creation, which may be any; each may be put under the active   *)
(* one, if they share a layer.                                             *)
SetCount(n) ==
    /\ n \in 1 .. MaxDesktops \ {count}
    /\ count' = n
    /\ current' = IF current > n THEN n ELSE current
    /\ active' = IF current > n THEN None ELSE active
    /\ asked' = IF current > n /\ asked # None /\ ~OnDesktop(asked, n) THEN None ELSE asked
    /\ UNCHANGED <<clients, minimized, hidden, input>>
    /\ desk' = [c \in Clients |-> IF desk[c] > n THEN n ELSE desk[c]]
    /\ LET gone == {c \in clients : desk[c] > n}
           Sent(ch, c, ref) ==
                LET moved == Update(ch, c, "MakeFirst", active')
                IN  IF ref = None THEN moved ELSE MoveAfterClient(moved, c, ref)
           Chains(order, under) ==
                LET sent[i \in 0 .. Len(order)] ==
                        IF i = 0 THEN chains ELSE Sent(sent[i - 1], order[i], under[order[i]])
                IN  sent[Len(order)]
       IN  \E order \in SetToSeqs(gone), under \in [gone -> clients \cup {None}] :
              /\ \A c \in gone : under[c] # None =>
                    current' = n /\ active' # None /\ under[c] \in References(c, active')
              /\ chains' = Resize(Chains(order, under), n)
    /\ stale' = IF n > count THEN stale \cup {c \in clients : desk[c] = AllDesktops}
                ELSE {c \in stale : desk[c] <= n}

Next ==
    \/ \E c \in Clients :
          \/ Manage(c) \/ Release(c) \/ MapRequest(c) \/ GetWMHints(c)
          \/ Minimize(c) \/ Unminimize(c) \/ HideTab(c) \/ ShowTab(c) \/ FocusIn(c)
          \/ \E d \in 0 .. MaxDesktops : SetDesktop(c, d)
          \/ \E ref \in Clients : RestackWindow(c, ref)
    \/ FocusOut
    \/ \E d \in 1 .. MaxDesktops : SetCurrent(d) \/ SetCount(d)

Spec == Init /\ [][Next]_vars

-----------------------------------------------------------------------------
(* Types: there is a chain for every desktop and one for all windows, none *)
(* of them names a window twice or one that is gone, and the active window *)
(* is on the desktop that is shown and not minimized                       *)
(* (Q_ASSERT(c != active_client) of removeClient(), assert of              *)
(* clientHidden()).                                                        *)
TypeOK ==
    /\ clients \subseteq Clients
    /\ desk \in [Clients -> 0 .. count]
    /\ minimized \cup hidden \cup input \cup stale \subseteq clients
    /\ active \in clients \cup {None} /\ asked \in clients \cup {None}
    /\ count \in 1 .. MaxDesktops /\ current \in 1 .. count
    /\ chains \in [{Recent} \cup 1 .. count -> Seq(clients)]
    /\ \A d \in DOMAIN chains : IsInjective(chains[d])
    /\ active # None => active \notin minimized /\ OnDesktop(active, current)

(* focuschain.h: the chain of a desktop holds the windows that want the    *)
(* focus and are on that desktop, the chain of most recently used windows  *)
(* all that want the focus, whatever sequence of moves, desktops and       *)
(* restacking led there; a window that is stale may be missing or left     *)
(* over, but no chain holds one that is on another desktop.                *)
ChainsAgree ==
    \A d \in DOMAIN chains, c \in clients :
        LET belongs == d = Recent \/ OnDesktop(c, d)
        IN  /\ c \in ToSet(chains[d]) => belongs
            /\ c \notin stale => (c \in ToSet(chains[d]) <=> belongs /\ c \in input)

(* focuschain.h, Update: while the active window stays active and is the   *)
(* most recently used one, no other window gets before it by appearing,    *)
(* being mapped, minimized, hidden or put under another: only one that is  *)
(* itself sent to a desktop or shown as a tab does, and the windows behind *)
(* the active one come forward, as they are, when that one is put back or  *)
(* leaves the desktop.                                                     *)
ActiveStaysFirst ==
    [][ active # None /\ active' = active =>
        \A d \in DOMAIN chains \cap DOMAIN chains' :
          /\ chains[d] # <<>> /\ Last(chains[d]) = active
          /\ chains'[d] # <<>> /\ Last(chains'[d]) # active
          => LET first == Last(chains'[d])
             IN  \/ first \in clients /\ desk'[first] # desk[first]
                 \/ first \in hidden \ hidden'
                 \/ Removed(chains'[d], active) = Removed(chains[d], active) ]_vars

(* activateNextClient(): when the active window is minimized, goes to      *)
(* another desktop or ends, a window that can be seen is told to take the  *)
(* focus, if the chain should have one; nobody is left typing to nothing.  *)
FocusPassedOn ==
    [][ \A c \in clients \ hidden :
          /\ active = c /\ current' = current
          /\ c \notin clients' \/ c \in minimized' \/ ~OnDesktop(c, current)'
          => /\ active' = None
             /\ LET Visible == {k \in clients \ {c} : Shown(k) /\ OnDesktop(k, current)}
                IN  asked' \in Visible' \/ ((Visible \cap input) \ stale)' = {} ]_vars

=============================================================================
