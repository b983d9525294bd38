------------------------------ MODULE WebSidebar ------------------------------
(***************************************************************************)
(* SidebarProvider and useIsMobile (apps/web/src/components/ui/sidebar.tsx *)
(* and apps/web/src/hooks/use-mobile.ts): a sidebar that is a panel on a   *)
(* wide window and a sheet on a narrow one.                                *)
(*                                                                         *)
(* State that has been set is what the next render knows: rendered is what *)
(* the callbacks of the last render hold.  One event may toggle twice      *)
(* before the next render, as when a trigger's own onClick also toggles.   *)
(* The media query tells the component of a change later than the change.  *)
(* A parent may pass open, onOpenChange, both or neither, and may ignore   *)
(* what onOpenChange asks of it.                                           *)
(*                                                                         *)
(* Operators whose names contain _Broken are defects for mutation checks;  *)
(* no behaviour of this module uses them.                                  *)
(***************************************************************************)
EXTENDS Integers

CONSTANTS
    DefaultOpen,
    MaxResizes     \* bound: how often the window crosses the breakpoint

VARIABLES
    openProp,      \* whether the parent passes open
    setOpenProp,   \* whether the parent passes onOpenChange
    narrow,        \* window.innerWidth < MOBILE_BREAKPOINT
    subscribed,    \* the effect of useIsMobile has run
    notices,       \* "change" events of the media query still to come
    isMobile,
    open,          \* _open, or the parent's
    openMobile,
    cookie,        \* sidebar_state, or "none"
    rendered,      \* open and isMobile of the last render
    resizes

vars == <<openProp, setOpenProp, narrow, subscribed, notices, isMobile, open, openMobile, cookie,
          rendered, resizes>>

-----------------------------------------------------------------------------
Init ==
    /\ openProp \in BOOLEAN
    /\ setOpenProp \in BOOLEAN
    /\ narrow \in BOOLEAN
    /\ subscribed = FALSE
    /\ notices = 0
    /\ isMobile = FALSE
    /\ open = DefaultOpen
    /\ openMobile = FALSE
    /\ cookie = "none"
    /\ rendered = [open |-> DefaultOpen, isMobile |-> FALSE]
    /\ resizes = 0

Effect_BrokenNoRead ==
    /\ ~subscribed
    /\ subscribed' = TRUE
    /\ UNCHANGED <<narrow, notices, isMobile, open, openMobile, cookie, rendered, resizes>>

(* The first effect subscribes, and reads the width once.                  *)
Effect ==
    /\ ~subscribed
    /\ subscribed' = TRUE
    /\ isMobile' = narrow
    /\ UNCHANGED <<narrow, notices, open, openMobile, cookie, rendered, resizes>>

(* The window crosses the breakpoint.                                      *)
Resize ==
    /\ resizes < MaxResizes
    /\ resizes' = resizes + 1
    /\ narrow' = ~narrow
    /\ notices' = IF subscribed THEN notices + 1 ELSE notices
    /\ UNCHANGED <<subscribed, isMobile, open, openMobile, cookie, rendered>>

(* onChange reads the width as it is now.                                  *)
onChange ==
    /\ notices > 0
    /\ notices' = notices - 1
    /\ isMobile' = narrow
    /\ UNCHANGED <<narrow, subscribed, open, openMobile, cookie, rendered, resizes>>

Written(openState) == IF openState THEN "true" ELSE "false"

setOpen_BrokenUpdater(openState) ==
    /\ open' = IF openProp \/ setOpenProp THEN openState ELSE ~open
    /\ cookie' = Written(openState)

(* What a sidebar may be after it was asked for openState.  Without        *)
(* onOpenChange _open is set, which a parent's open hides; with it the     *)
(* parent is asked and _open stays.                                        *)
Set(openState) ==
    IF openProp THEN IF setOpenProp THEN {open, openState} ELSE {open}
    ELSE IF setOpenProp THEN {open} ELSE {openState}

(* _setOpen or the parent's setter, and the cookie in either case.         *)
setOpen(openState) ==
    /\ open' \in Set(openState)
    /\ cookie' = Written(openState)

(* The trigger, the rail and Ctrl+B: the sheet on a narrow window, else    *)
(* the opposite of what the last render had.                               *)
toggleSidebar ==
    /\ IF rendered.isMobile
       THEN openMobile' = ~openMobile /\ UNCHANGED <<open, cookie>>
       ELSE setOpen(~rendered.open) /\ UNCHANGED openMobile
    /\ UNCHANGED <<narrow, subscribed, notices, isMobile, rendered, resizes>>

(* The trigger and the rail.                                               *)
SidebarTrigger == toggleSidebar

(* A parent that passes open changes it as it likes.                       *)
PassOpen ==
    /\ openProp
    /\ open' = ~open
    /\ UNCHANGED <<narrow, subscribed, notices, isMobile, openMobile, cookie, rendered, resizes>>

(* The sheet is dismissed; it is shown on a narrow window only.            *)
CloseSheet ==
    /\ rendered.isMobile /\ openMobile
    /\ openMobile' = FALSE
    /\ UNCHANGED <<narrow, subscribed, notices, isMobile, open, cookie, rendered, resizes>>

Render ==
    /\ rendered # [open |-> open, isMobile |-> isMobile]
    /\ rendered' = [open |-> open, isMobile |-> isMobile]
    /\ UNCHANGED <<narrow, subscribed, notices, isMobile, open, openMobile, cookie, resizes>>

Next ==
    /\ UNCHANGED <<openProp, setOpenProp>>
    /\ Effect \/ Resize \/ onChange \/ SidebarTrigger \/ PassOpen \/ CloseSheet \/ Render

(* React runs effects and renders what was set; the browser delivers its   *)
(* events.  Nobody need click.                                             *)
Fairness == WF_vars(Effect) /\ WF_vars(onChange) /\ WF_vars(Render)

Spec == Init /\ [][Next]_vars /\ Fairness

-----------------------------------------------------------------------------
(* The types of the state.                                                 *)
TypeOK ==
    /\ openProp \in BOOLEAN /\ setOpenProp \in BOOLEAN
    /\ narrow \in BOOLEAN /\ subscribed \in BOOLEAN
    /\ notices \in 0 .. MaxResizes /\ resizes \in 0 .. MaxResizes
    /\ isMobile \in BOOLEAN /\ open \in BOOLEAN /\ openMobile \in BOOLEAN
    /\ cookie \in {"none", "true", "false"}
    /\ rendered \in [open : BOOLEAN, isMobile : BOOLEAN]

(* The cookie remembers the sidebar: of a sidebar that is given neither    *)
(* open nor onOpenChange it tells whether it is open, also when one event  *)
(* toggles twice.  Of any other sidebar it tells what was asked last.      *)
CookieRemembers ==
    ~openProp /\ ~setOpenProp => cookie = (IF cookie = "none" /\ open = DefaultOpen THEN "none"
                             ELSE Written(open))

(* What is on the screen of a sidebar that collapses in one of two ways:   *)
(* the sheet, the panel, its icons, or nothing.  The style sheet keeps the *)
(* panel from narrow windows whatever the component knows.                 *)
Sidebar(collapsible) ==
    IF rendered.isMobile THEN IF openMobile THEN "sheet" ELSE "nothing"
    ELSE IF narrow THEN "nothing"
    ELSE IF rendered.open THEN "panel"
    ELSE IF collapsible = "icon" THEN "icons" ELSE "nothing"

(* Whether a button of the menu has a tooltip.                             *)
SidebarMenuButton == ~rendered.open /\ ~rendered.isMobile

(* However its changes fell between the first render, the effect and the   *)
(* events, in the end the component knows the window it is in: the trigger *)
(* opens a sheet on a narrow one and the panel on a wide one, where just   *)
(* the buttons that are cut to their icons have tooltips.                  *)
WidthNoticed ==
    <>[](/\ rendered.isMobile = narrow
         /\ Sidebar("icon") \in (IF narrow THEN {"sheet", "nothing"} ELSE {"panel", "icons"})
         /\ ~narrow => (SidebarMenuButton <=> Sidebar("icon") = "icons"))
=============================================================================
