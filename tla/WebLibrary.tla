------------------------------ MODULE WebLibrary ------------------------------
(* The parts of the web application that do not share state, side by side:  *)
(* a behaviour runs the one that subject names and leaves the others alone. *)
EXTENDS Integers, Sequences, FiniteSets

CONSTANTS Calls, None, MaxOps, DefaultOpen, MaxResizes, MaxSlides, Keys, Clicks, MaxVersion,
          Providers, Leaks, Integrations, CommonNames, Plaintexts,
          SeedLeases, SeedCertificates, SeedRequests, MaxId,
          Items, PointLabels, Configs, NameKeys, LabelKeys,
          Fields, Messages

VARIABLES
    subject,
    authToken, call, data, ops, written, settled,
    openProp, setOpenProp, narrow, subscribed, notices, isMobile, openSidebar, openMobile, cookie,
    rendered, resizes,
    api, slides, selected, following, canScrollPrev, canScrollNext,
    available, secretKey, secretValue, isRevealed, copying, clipboard, copied,
    globalSeqCounter, section, certificates, accessRequests, auditLogs, leases, code, results,
    lastSync, ciphertext, open,
    config, options, hover, memo,
    described, hints, given, errors, submitted

Client == INSTANCE ApiClient

Sidebar == INSTANCE WebSidebar WITH open <- openSidebar

Carousel == INSTANCE WebCarousel WITH subscribed <- following

Card == INSTANCE SecretCard

Pages == INSTANCE ConsolePages

Chart == INSTANCE ChartTooltip

Form == INSTANCE FormFields

(* A carousel has a slide, a secret a first version; the rest are bounds.   *)
ASSUME BoundsAssumption ==
    /\ MaxOps \in Nat /\ MaxResizes \in Nat
    /\ MaxSlides \in Nat \ {0} /\ MaxVersion \in Nat \ {0}
    /\ MaxId \in Nat /\ MaxId >= Pages!FirstId

ASSUME DefaultOpenAssumption == DefaultOpen \in BOOLEAN

ASSUME LeaksAssumption == IsFiniteSet(Leaks)

(* The data a page starts with (page.tsx): its leases are active and were   *)
(* numbered before generateId draws, and no two requests share an id.       *)
ASSUME SeedAssumption ==
    /\ SeedLeases \in Seq(Pages!DynamicLease)
    /\ SeedCertificates \in Seq(Pages!Certificate)
    /\ SeedRequests \in Seq(Pages!AccessRequest)
    /\ \A i \in DOMAIN SeedLeases :
           SeedLeases[i].status = "Active" /\ SeedLeases[i].id <= Pages!FirstId
    /\ \A i, j \in DOMAIN SeedRequests : SeedRequests[i].id = SeedRequests[j].id => i = j

clientVars == <<authToken, call, data, ops, written, settled>>

sidebarVars == <<openProp, setOpenProp, narrow, subscribed, notices, isMobile, openSidebar,
                 openMobile, cookie, rendered, resizes>>

carouselVars == <<api, slides, selected, following, canScrollPrev, canScrollNext>>

cardVars == <<available, secretKey, secretValue, isRevealed, copying, clipboard, copied>>

pagesVars == <<globalSeqCounter, section, certificates, accessRequests, auditLogs, leases,
               code, results, lastSync, ciphertext, open>>

chartVars == <<config, options, hover, memo>>

formVars == <<described, hints, given, errors, submitted>>

webVars == <<clientVars, sidebarVars, carouselVars, cardVars, pagesVars>>

uiVars == <<chartVars, formVars>>

vars == <<subject, webVars, uiVars>>

Init ==
    /\ subject \in {"client", "sidebar", "carousel", "card", "pages", "chart", "form"}
    /\ Client!Init
    /\ Sidebar!Init
    /\ Carousel!Init
    /\ Card!Init
    /\ Pages!Init
    /\ IF subject = "chart" THEN Chart!Init
       ELSE /\ config = <<>> /\ options = <<>> /\ memo = <<>>
            /\ hover = Chart!Away
    /\ Form!Init
    /\ subject # "sidebar" => ~openProp /\ ~setOpenProp /\ ~narrow
    /\ subject # "carousel" => slides = 1
    /\ subject # "card" => available /\ secretKey = CHOOSE key \in Keys : TRUE
    /\ subject # "form" => described = {} /\ hints = {} /\ given = {}

Next ==
    \/ /\ subject = "sidebar" /\ Sidebar!Next
       /\ UNCHANGED <<subject, clientVars, carouselVars, cardVars, pagesVars, uiVars>>
    \/ /\ subject = "carousel" /\ Carousel!Next
       /\ UNCHANGED <<subject, clientVars, sidebarVars, cardVars, pagesVars, uiVars>>
    \/ /\ subject = "client" /\ Client!Next
       /\ UNCHANGED <<subject, sidebarVars, carouselVars, cardVars, pagesVars, uiVars>>
    \/ /\ subject = "card" /\ Card!Next
       /\ UNCHANGED <<subject, clientVars, sidebarVars, carouselVars, pagesVars, uiVars>>
    \/ /\ subject = "pages" /\ Pages!Next
       /\ UNCHANGED <<subject, clientVars, sidebarVars, carouselVars, cardVars, uiVars>>
    \/ /\ subject = "chart" /\ Chart!Next
       /\ UNCHANGED <<subject, webVars, formVars>>
    \/ /\ subject = "form" /\ Form!Next
       /\ UNCHANGED <<subject, webVars, chartVars>>

(* The fairness of the two components that have any.                        *)
Fairness ==
    /\ WF_sidebarVars(subject = "sidebar" /\ Sidebar!Effect /\ UNCHANGED <<openProp, setOpenProp>>)
    /\ WF_sidebarVars(subject = "sidebar" /\ Sidebar!onChange /\ UNCHANGED <<openProp, setOpenProp>>)
    /\ WF_sidebarVars(subject = "sidebar" /\ Sidebar!Render /\ UNCHANGED <<openProp, setOpenProp>>)
    /\ WF_carouselVars(subject = "carousel" /\ Carousel!CreateApi)
    /\ WF_carouselVars(subject = "carousel" /\ Carousel!Subscribe)

Spec == Init /\ [][Next]_vars /\ Fairness

-----------------------------------------------------------------------------
(* The types of the components' states.                                     *)
TypeOK ==
    /\ Sidebar!TypeOK /\ Carousel!TypeOK
    /\ subject = "pages" => Pages!TypeOK

(* api.ts, sidebar.tsx, secret-card.tsx: what comes late does no harm.  A   *)
(* sign-out or a login that ended while no other login was in flight is not *)
(* undone by an older one; the cookie says whether a sidebar that is given  *)
(* neither open nor onOpenChange is open, from whatever render it was set;  *)
(* and where there is a clipboard onCopy names a secret of which a value    *)
(* was copied.  Outside these conditions each of the three does fail.       *)
LateIsHarmless ==
    Client!TokenNotRevived /\ Sidebar!CookieRemembers /\ Card!CopiedWasWritten

(* use-mobile.ts, carousel.tsx: however windows and slides change before an *)
(* effect has run, in the end the sidebar knows how wide the window is and  *)
(* the carousel's buttons are enabled as they should be.                    *)
EffectsCatchUp ==
    /\ subject = "sidebar" => Sidebar!WidthNoticed
    /\ subject = "carousel" => Carousel!ButtonsEnabled

(* page.tsx, chart.tsx, form.tsx, field.tsx: certificates and access        *)
(* requests agree with the audit trail and what a page shows has its event; *)
(* a tooltip is of the point it is at and agrees with the legend; what is   *)
(* read out with a control is the error it has; and an error's message is   *)
(* listed once by a FieldError that has no children.                        *)
ShownIsTrue ==
    /\ subject = "pages" => Pages!KeptIsAccounted /\ Pages!ShownHasEvent
    /\ subject = "chart" => Chart!TooltipTruthful
    /\ subject = "form" => Form!ErrorsAnnounced
=============================================================================
