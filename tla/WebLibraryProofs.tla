--------------------------- MODULE WebLibraryProofs ---------------------------
(***************************************************************************)
(* Proofs about the parts of the web application that WebLibrary puts side *)
(* by side, for any number of calls, clicks and slides, and for any seed   *)
(* data, chart and form.  Each part has an inductive invariant of its own, *)
(* and a step of the composition is a step of one part.                    *)
(***************************************************************************)
EXTENDS WebLibrary, TLAPS, FiniteSetTheorems, SequenceTheorems

(* The library's operators, as the instances see them.                     *)
LEMMA SameCardinality == \A S : Pages!Cardinality(S) = Cardinality(S)
  BY DEF Pages!Cardinality, Cardinality

-----------------------------------------------------------------------------
(* The API client.  A login that is in flight is newer than everything     *)
(* that has settled, so that its answer settles or is settled by nothing   *)
(* older.                                                                  *)
ClientInv ==
    /\ ops \in 0 .. MaxOps /\ written \in 0 .. ops /\ settled \in 0 .. written
    /\ authToken \in {0, written}
    /\ call \in [Calls -> Client!Login \cup Client!Request \cup {None}]
    /\ \A c \in Calls :
          call[c] # None /\ call[c].kind = "login" =>
              settled < call[c].op /\ call[c].op <= ops

LEMMA ClientInit == Client!Init => ClientInv
  BY BoundsAssumption DEF Client!Init, ClientInv

LEMMA LoginStep ==
  ASSUME ClientInv, NEW c \in Calls, Client!login(c)
  PROVE  ClientInv'
<1> DEFINE new == [kind |-> "login", op |-> ops', header |-> authToken]
<1>1. /\ ops \in Nat /\ ops < MaxOps /\ ops' = ops + 1 /\ written \in 0 .. ops
      /\ settled \in 0 .. written /\ UNCHANGED <<authToken, written, settled>>
  BY BoundsAssumption DEF ClientInv, Client!login
<1>2. new \in Client!Login /\ new.op = ops'
  BY <1>1, BoundsAssumption DEF ClientInv, Client!Login
<1>3. call' = [call EXCEPT ![c] = new]
  BY DEF Client!login
<1> HIDE DEF new
<1>4. call' \in [Calls -> Client!Login \cup Client!Request \cup {None}]
  BY <1>2, <1>3 DEF ClientInv
<1>5. ASSUME NEW d \in Calls, call'[d] # None /\ call'[d].kind = "login"
      PROVE  settled' < call'[d].op /\ call'[d].op <= ops'
  <2>1. CASE d = c
    BY <1>1, <1>2, <1>3, <2>1, BoundsAssumption DEF ClientInv
  <2>2. CASE d # c
    <3>1. call'[d] = call[d] /\ call[d] \in Client!Login \cup Client!Request
      BY <1>3, <1>5, <2>2 DEF ClientInv
    <3>2. call[d].op \in Int
      BY <1>5, <3>1, BoundsAssumption DEF Client!Login, Client!Request
    <3>3. settled < call[d].op /\ call[d].op <= ops
      BY <1>5, <3>1 DEF ClientInv
    <3> QED
      BY <1>1, <3>1, <3>2, <3>3
  <2> QED
    BY <2>1, <2>2
<1> QED
  BY <1>1, <1>4, <1>5, BoundsAssumption DEF ClientInv

LEMMA RequestStep ==
  ASSUME ClientInv, NEW c \in Calls, Client!request(c)
  PROVE  ClientInv'
<1>1. [kind |-> "request", header |-> authToken] \in Client!Request
  BY BoundsAssumption DEF ClientInv, Client!Request
<1> QED
  BY <1>1, BoundsAssumption DEF ClientInv, Client!request

LEMMA LoginAnsweredStep ==
  ASSUME ClientInv, NEW c \in Calls, Client!LoginAnswered(c)
  PROVE  ClientInv'
<1> DEFINE n == call[c].op
<1>1. n \in Int /\ settled < n /\ n <= ops
  BY BoundsAssumption DEF ClientInv, Client!LoginAnswered, Client!Login, Client!Request
<1>2. /\ call' \in [Calls -> Client!Login \cup Client!Request \cup {None}]
      /\ ops' \in 0 .. MaxOps /\ written' \in 0 .. ops' /\ settled' \in 0 .. written'
      /\ authToken' \in {0, written'}
  BY <1>1, BoundsAssumption DEF ClientInv, Client!LoginAnswered, Client!Settles
<1>3. ASSUME NEW d \in Calls, call'[d] # None /\ call'[d].kind = "login"
      PROVE  settled' < call'[d].op /\ call'[d].op <= ops'
  <2>1. d # c /\ call'[d] = call[d]
    BY <1>3 DEF ClientInv, Client!LoginAnswered
  <2>2. d \in Client!LoginsBut(c)
    BY <1>3, <2>1 DEF Client!LoginsBut
  <2>3. settled' = settled
    BY <2>2 DEF Client!LoginAnswered, Client!Settles
  <2> QED
    BY <1>3, <2>1, <2>3 DEF ClientInv, Client!LoginAnswered
<1> QED
  BY <1>2, <1>3 DEF ClientInv

LEMMA ClientEndsStep ==
  ASSUME ClientInv, NEW c \in Calls, Client!RequestAnswered(c) \/ Client!Fails(c)
  PROVE  ClientInv'
  BY BoundsAssumption DEF ClientInv, Client!RequestAnswered, Client!Fails

LEMMA SetAuthTokenStep ==
  ASSUME ClientInv, Client!setAuthToken
  PROVE  ClientInv'
<1>1. /\ ops \in Nat /\ ops < MaxOps /\ ops' = ops + 1 /\ written' = ops' /\ authToken' = 0
      /\ written \in 0 .. ops /\ settled \in 0 .. written /\ UNCHANGED call
      /\ settled' \in {settled, ops'}
  BY BoundsAssumption DEF ClientInv, Client!setAuthToken
<1>2. ASSUME NEW d \in Calls, call'[d] # None /\ call'[d].kind = "login"
      PROVE  settled' < call'[d].op /\ call'[d].op <= ops'
  <2>1. settled' = settled
    BY <1>1, <1>2 DEF Client!setAuthToken
  <2>2. call[d].op \in Int
    BY <1>1, <1>2, BoundsAssumption DEF ClientInv, Client!Login, Client!Request
  <2>3. settled < call[d].op /\ call[d].op <= ops
    BY <1>1, <1>2 DEF ClientInv
  <2> QED
    BY <1>1, <2>1, <2>2, <2>3
<1> QED
  BY <1>1, <1>2, BoundsAssumption DEF ClientInv

LEMMA ClientNext == ClientInv /\ [Client!Next]_clientVars => ClientInv'
<1> SUFFICES ASSUME ClientInv, [Client!Next]_clientVars PROVE ClientInv'
  OBVIOUS
<1>1. CASE UNCHANGED clientVars
  BY <1>1 DEF ClientInv, clientVars
<1>2. CASE Client!Next
  BY <1>2, LoginStep, RequestStep, LoginAnsweredStep, ClientEndsStep, SetAuthTokenStep
     DEF Client!Next
<1> QED
  BY <1>1, <1>2

-----------------------------------------------------------------------------
(* The sidebar.  A notice is on its way for some of the resizes; when none *)
(* is, the component that has subscribed knows how wide the window is.     *)
Noticed == subscribed /\ notices = 0 => isMobile = narrow

SidebarInv ==
    /\ Sidebar!TypeOK /\ notices <= resizes
    /\ Sidebar!CookieRemembers
    /\ Noticed

LEMMA SidebarInit == Sidebar!Init => SidebarInv
<1> SUFFICES ASSUME Sidebar!Init PROVE SidebarInv
  OBVIOUS
<1>1. notices \in 0 .. MaxResizes /\ resizes \in 0 .. MaxResizes /\ notices <= resizes
  BY BoundsAssumption DEF Sidebar!Init
<1>2. rendered \in [open : BOOLEAN, isMobile : BOOLEAN] /\ cookie \in {"none", "true", "false"}
  BY DefaultOpenAssumption DEF Sidebar!Init
<1>3. Sidebar!TypeOK
  BY <1>1, <1>2, DefaultOpenAssumption DEF Sidebar!Init, Sidebar!TypeOK
<1>4. Sidebar!CookieRemembers /\ Noticed
  BY DEF Sidebar!Init, Sidebar!CookieRemembers, Noticed
<1> QED
  BY <1>1, <1>3, <1>4 DEF SidebarInv

(* The effect and the events that tell of the width.                       *)
LEMMA WidthStep ==
  ASSUME SidebarInv, UNCHANGED <<openProp, setOpenProp>>, Sidebar!Effect \/ Sidebar!onChange \/ Sidebar!Resize
  PROVE  SidebarInv'
<1>1. /\ notices' \in 0 .. MaxResizes /\ resizes' \in 0 .. MaxResizes /\ notices' <= resizes'
      /\ Sidebar!Resize => ~subscribed \/ notices' # 0
  BY BoundsAssumption
     DEF SidebarInv, Sidebar!TypeOK, Sidebar!Effect, Sidebar!onChange, Sidebar!Resize
<1>2. /\ narrow' \in BOOLEAN /\ subscribed' \in BOOLEAN /\ isMobile' \in BOOLEAN
      /\ UNCHANGED <<openProp, setOpenProp, openSidebar, openMobile, cookie, rendered>>
  BY DEF SidebarInv, Sidebar!TypeOK, Sidebar!Effect, Sidebar!onChange, Sidebar!Resize
<1>3. Sidebar!CookieRemembers'
  BY <1>2 DEF SidebarInv, Sidebar!CookieRemembers, Sidebar!Written
<1>4. Noticed'
  BY <1>1 DEF Noticed, Sidebar!Effect, Sidebar!onChange, Sidebar!Resize
<1> QED
  BY <1>1, <1>2, <1>3, <1>4 DEF SidebarInv, Sidebar!TypeOK

LEMMA ToggleStep ==
  ASSUME SidebarInv, UNCHANGED <<openProp, setOpenProp>>, Sidebar!SidebarTrigger
  PROVE  SidebarInv'
<1>1. UNCHANGED <<openProp, setOpenProp, narrow, subscribed, notices, isMobile, rendered, resizes>>
  BY DEF Sidebar!SidebarTrigger, Sidebar!toggleSidebar
<1>2. \/ openMobile' = ~openMobile /\ UNCHANGED <<openSidebar, cookie>>
      \/ Sidebar!setOpen(~rendered.open) /\ UNCHANGED openMobile
  BY DEF Sidebar!SidebarTrigger, Sidebar!toggleSidebar
<1>3. rendered.open \in BOOLEAN
  BY DEF SidebarInv, Sidebar!TypeOK
<1>4. openMobile' \in BOOLEAN /\ openSidebar' \in BOOLEAN
  BY <1>2, <1>3 DEF SidebarInv, Sidebar!TypeOK, Sidebar!setOpen, Sidebar!Set
<1>5. cookie' \in {"none", "true", "false"}
  BY <1>2 DEF SidebarInv, Sidebar!TypeOK, Sidebar!setOpen, Sidebar!Written
<1>6. Sidebar!CookieRemembers'
  <2>1. CASE UNCHANGED <<openSidebar, cookie>>
    BY <1>1, <2>1 DEF SidebarInv, Sidebar!CookieRemembers, Sidebar!Written
  <2>2. CASE Sidebar!setOpen(~rendered.open)
    <3>1. Sidebar!Written(~rendered.open) # "none"
      BY DEF Sidebar!Written
    <3>2. ~openProp /\ ~setOpenProp => openSidebar' = ~rendered.open
      BY <2>2 DEF Sidebar!setOpen, Sidebar!Set
    <3>3. cookie' = Sidebar!Written(~rendered.open)
      BY <2>2 DEF Sidebar!setOpen
    <3>4. ~openProp /\ ~setOpenProp => cookie' = Sidebar!Written(openSidebar')
      BY <3>2, <3>3
    <3>5. cookie' # "none"
      BY <3>1, <3>3
    <3> QED
      BY <1>1, <3>4, <3>5 DEF Sidebar!CookieRemembers, Sidebar!Written
  <2> QED
    BY <1>2, <2>1, <2>2
<1>7. Noticed' /\ notices' <= resizes'
  BY <1>1 DEF SidebarInv, Noticed
<1> QED
  BY <1>1, <1>4, <1>5, <1>6, <1>7 DEF SidebarInv, Sidebar!TypeOK

LEMMA RenderStep ==
  ASSUME SidebarInv, UNCHANGED <<openProp, setOpenProp>>, Sidebar!CloseSheet \/ Sidebar!Render
  PROVE  SidebarInv'
<1>1. /\ UNCHANGED <<openProp, setOpenProp, narrow, subscribed, notices, isMobile, openSidebar,
                   cookie, resizes>>
      /\ openMobile' \in BOOLEAN
      /\ rendered' \in {rendered, [open |-> openSidebar, isMobile |-> isMobile]}
  BY DEF SidebarInv, Sidebar!TypeOK, Sidebar!CloseSheet, Sidebar!Render
<1>2. Sidebar!TypeOK'
  BY <1>1 DEF SidebarInv, Sidebar!TypeOK
<1>3. Noticed' /\ notices' <= resizes'
  BY <1>1 DEF SidebarInv, Noticed
<1>4. Sidebar!CookieRemembers'
  BY <1>1 DEF SidebarInv, Sidebar!CookieRemembers, Sidebar!Written
<1> QED
  BY <1>2, <1>3, <1>4 DEF SidebarInv

LEMMA PassOpenStep ==
  ASSUME SidebarInv, UNCHANGED <<openProp, setOpenProp>>, Sidebar!PassOpen
  PROVE  SidebarInv'
<1>1. /\ UNCHANGED <<narrow, subscribed, notices, isMobile, openMobile, cookie, rendered, resizes>>
      /\ openSidebar' \in BOOLEAN /\ openProp'
  BY DEF SidebarInv, Sidebar!TypeOK, Sidebar!PassOpen
<1>2. Sidebar!TypeOK'
  BY <1>1 DEF SidebarInv, Sidebar!TypeOK
<1>3. Noticed' /\ notices' <= resizes' /\ Sidebar!CookieRemembers'
  BY <1>1 DEF SidebarInv, Noticed, Sidebar!CookieRemembers
<1> QED
  BY <1>2, <1>3 DEF SidebarInv

LEMMA SidebarNext == SidebarInv /\ [Sidebar!Next]_sidebarVars => SidebarInv'
<1> SUFFICES ASSUME SidebarInv, [Sidebar!Next]_sidebarVars PROVE SidebarInv'
  OBVIOUS
<1>1. CASE UNCHANGED sidebarVars
  BY <1>1 DEF sidebarVars, SidebarInv, Sidebar!TypeOK, Sidebar!CookieRemembers, Sidebar!Written,
     Noticed
<1>2. CASE Sidebar!Next
  BY <1>2, WidthStep, ToggleStep, PassOpenStep, RenderStep DEF Sidebar!Next
<1> QED
  BY <1>1, <1>2

-----------------------------------------------------------------------------
(* The carousel: once the effect has run the flags are as they should be.  *)
Follows ==
    following => api /\ (canScrollPrev <=> selected > 1) /\ (canScrollNext <=> selected < slides)

CarouselInv == Carousel!TypeOK /\ Follows

LEMMA CarouselInit == Carousel!Init => CarouselInv
<1> SUFFICES ASSUME Carousel!Init PROVE CarouselInv
  OBVIOUS
<1>1. slides \in 1 .. MaxSlides /\ selected \in 1 .. slides
  BY BoundsAssumption DEF Carousel!Init
<1> QED
  BY <1>1 DEF Carousel!Init, CarouselInv, Carousel!TypeOK, Follows

(* onSelect runs whenever Embla has changed what it shows.                 *)
LEMMA EmitsStep ==
  ASSUME CarouselInv, api, slides' \in 1 .. MaxSlides, selected' \in 1 .. slides',
         UNCHANGED <<api, following>>, Carousel!Emits
  PROVE  CarouselInv'
<1> DEFINE prev == Carousel!EmblaCanPrev(selected')
           next == Carousel!EmblaCanNext(selected', slides')
<1>1. prev \in BOOLEAN /\ next \in BOOLEAN
  BY DEF Carousel!EmblaCanPrev, Carousel!EmblaCanNext
<1>2. canScrollPrev' \in {canScrollPrev, prev} /\ canScrollNext' \in {canScrollNext, next}
  BY DEF Carousel!Emits, Carousel!onSelect
<1>3. canScrollPrev' \in BOOLEAN /\ canScrollNext' \in BOOLEAN
  <2> HIDE DEF prev, next
  <2> QED
    BY <1>1, <1>2 DEF CarouselInv, Carousel!TypeOK
<1>4. Follows'
  BY DEF Follows, Carousel!Emits, Carousel!onSelect, Carousel!EmblaCanPrev, Carousel!EmblaCanNext
<1> QED
  BY <1>3, <1>4 DEF CarouselInv, Carousel!TypeOK

LEMMA ScrollToStep ==
  ASSUME CarouselInv, NEW index \in 1 .. slides, Carousel!ScrollTo(index)
  PROVE  CarouselInv'
  BY EmitsStep DEF CarouselInv, Carousel!TypeOK, Carousel!ScrollTo

LEMMA CarouselNext == CarouselInv /\ [Carousel!Next]_carouselVars => CarouselInv'
<1> SUFFICES ASSUME CarouselInv, [Carousel!Next]_carouselVars PROVE CarouselInv'
  OBVIOUS
<1>1. CASE UNCHANGED carouselVars
  BY <1>1 DEF carouselVars, CarouselInv, Carousel!TypeOK, Follows
<1>2. CASE Carousel!CreateApi
  BY <1>2 DEF Carousel!CreateApi, CarouselInv, Carousel!TypeOK, Follows
<1>3. CASE Carousel!Subscribe
  <2>1. canScrollPrev' \in BOOLEAN /\ canScrollNext' \in BOOLEAN
    BY <1>3 DEF Carousel!Subscribe, Carousel!onSelect, Carousel!EmblaCanPrev, Carousel!EmblaCanNext
  <2>2. Follows'
    BY <1>3 DEF Follows, Carousel!Subscribe, Carousel!onSelect, Carousel!EmblaCanPrev,
       Carousel!EmblaCanNext
  <2> QED
    BY <1>3, <2>1, <2>2 DEF Carousel!Subscribe, CarouselInv, Carousel!TypeOK
<1>4. CASE Carousel!scrollPrev \/ Carousel!scrollNext
  <2>1. selected \in 1 .. slides /\ slides \in Nat
    BY BoundsAssumption DEF CarouselInv, Carousel!TypeOK
  <2>2. PICK index \in 1 .. slides : Carousel!ScrollTo(index)
    BY <1>4, <2>1 DEF Carousel!scrollPrev, Carousel!scrollNext, Carousel!EmblaCanPrev,
       Carousel!EmblaCanNext
  <2> QED
    BY <2>2, ScrollToStep
<1>5. CASE Carousel!Drag
  BY <1>5, ScrollToStep DEF Carousel!Drag
<1>6. CASE Carousel!ReInit
  <2>1. slides' \in 1 .. MaxSlides /\ selected' \in 1 .. slides'
    BY <1>6, BoundsAssumption DEF Carousel!ReInit, CarouselInv, Carousel!TypeOK
  <2> QED
    BY <1>6, <2>1, EmitsStep DEF Carousel!ReInit
<1> QED
  BY <1>1, <1>2, <1>3, <1>4, <1>5, <1>6
     DEF Carousel!Next, Carousel!handleKeyDown, Carousel!CarouselPrevious, Carousel!CarouselNext

-----------------------------------------------------------------------------
(* The card: a copy that is under way is of one secret, whatever the card  *)
(* shows by now, and what was written is in the clipboard.                 *)
Sound(c) ==
    copying[c] # None =>
        /\ copying[c] \in Card!Copy /\ copying[c].value[1] = copying[c].key
        /\ copying[c].written => copying[c].value \in clipboard

CardInv ==
    /\ secretValue \in Card!Values /\ secretKey = secretValue[1]
    /\ DOMAIN copying = Clicks /\ copying = [c \in Clicks |-> copying[c]]
    /\ \A c \in Clicks : Sound(c)
    /\ Card!CopiedWasWritten

LEMMA CardInit == Card!Init => CardInv
  BY BoundsAssumption DEF Card!Init, CardInv, Sound, Card!Values, Card!CopiedWasWritten

LEMMA CopyStep ==
  ASSUME CardInv, available' = available, NEW click \in Clicks, NEW new,
         copying' = [copying EXCEPT ![click] = new],
         new # None => /\ new \in Card!Copy /\ new.value[1] = new.key
                       /\ new.written => new.value \in clipboard',
         UNCHANGED <<secretKey, secretValue>>,
         clipboard \subseteq clipboard', Card!CopiedWasWritten'
  PROVE  CardInv'
<1>1. DOMAIN copying' = Clicks /\ copying' = [c \in Clicks |-> copying'[c]]
  BY DEF CardInv
<1>2. ASSUME NEW c \in Clicks PROVE Sound(c)'
  <2>1. CASE c = click
    BY <2>1 DEF CardInv, Sound
  <2>2. CASE c # click
    BY <2>2 DEF CardInv, Sound
  <2> QED
    BY <2>1, <2>2
<1> QED
  BY <1>1, <1>2 DEF CardInv

LEMMA HandleCopyStep ==
  ASSUME CardInv, UNCHANGED available, NEW c \in Clicks, Card!handleCopy(c)
  PROVE  CardInv'
<1>1. [key |-> secretKey, value |-> secretValue, written |-> FALSE] \in Card!Copy
  BY DEF CardInv, Card!Copy, Card!Values
<1> QED
  BY <1>1, CopyStep DEF CardInv, Card!handleCopy, Card!CopiedWasWritten

LEMMA WriteTextStep ==
  ASSUME CardInv, UNCHANGED available, NEW c \in Clicks, Card!WriteText(c)
  PROVE  CardInv'
<1> DEFINE new == [copying[c] EXCEPT !.written = TRUE]
<1>1. copying[c] \in Card!Copy /\ copying[c].value[1] = copying[c].key
  BY DEF CardInv, Sound, Card!WriteText
<1>2. new \in Card!Copy /\ new.value = copying[c].value /\ new.key = copying[c].key
  BY <1>1 DEF Card!Copy
<1>3. copying' = [copying EXCEPT ![c] = new]
  BY DEF Card!WriteText
<1>4. new.value \in clipboard' /\ clipboard \subseteq clipboard'
  BY <1>2 DEF Card!WriteText
<1>5. Card!CopiedWasWritten'
  BY DEF CardInv, Card!WriteText, Card!CopiedWasWritten
<1>6. UNCHANGED <<secretKey, secretValue>>
  BY DEF Card!WriteText
<1> HIDE DEF new
<1> QED
  BY <1>1, <1>2, <1>3, <1>4, <1>5, <1>6, CopyStep

LEMMA OnCopyStep ==
  ASSUME CardInv, UNCHANGED available, NEW c \in Clicks, Card!onCopy(c)
  PROVE  CardInv'
<1>1. Card!CopiedWasWritten'
  BY DEF CardInv, Sound, Card!onCopy, Card!CopiedWasWritten
<1> QED
  BY <1>1, CopyStep DEF Card!onCopy

LEMMA CardNext == CardInv /\ [Card!Next]_cardVars => CardInv'
<1> SUFFICES ASSUME CardInv, [Card!Next]_cardVars PROVE CardInv'
  OBVIOUS
<1>1. CASE UNCHANGED cardVars \/ (Card!toggleReveal /\ UNCHANGED available)
  BY <1>1 DEF cardVars, Card!toggleReveal, CardInv, Sound, Card!CopiedWasWritten
<1>2. ASSUME UNCHANGED available, NEW new \in Card!Values, Card!PassProps(new) PROVE CardInv'
  BY <1>2 DEF Card!PassProps, CardInv, Sound, Card!CopiedWasWritten
<1>3. ASSUME UNCHANGED available, NEW c \in Clicks, Card!Refuse(c) PROVE CardInv'
  BY <1>3, CopyStep DEF CardInv, Card!Refuse, Card!CopiedWasWritten
<1> QED
  BY <1>1, <1>2, <1>3, HandleCopyStep, WriteTextStep, OnCopyStep DEF Card!Next

-----------------------------------------------------------------------------
(* A form's fields: what is read out follows from the errors there are.    *)
FormInv == errors \in [Fields -> Form!Found]

LEMMA FormInit == Form!Init => FormInv
  BY DEF Form!Init, FormInv, Form!Found

LEMMA FormNext == FormInv /\ [Form!Next]_formVars => FormInv'
  BY DEF FormInv, Form!Next, Form!Change, Form!Submit, Form!Reset, formVars, Form!Found

(* Every message that was found is listed once, where it was met first,    *)
(* unless there are children.                                              *)
LEMMA ListedOnce ==
  ASSUME NEW f, f \notin given,
         NEW found \in Form!Found, NEW k \in DOMAIN found, found[k] \in Messages
  PROVE  /\ Form!FieldError(f, found).alert
         /\ \E i \in Form!FieldError(f, found).listed :
               \A j \in Form!FieldError(f, found).listed :
                   found[i] = found[k] /\ (found[j] = found[k] => i = j)
<1> DEFINE listed == {i \in Form!Unique(found) : found[i] \in Messages}
<1>1. found # <<>> /\ DOMAIN found \subseteq {1, 2} /\ (2 \in DOMAIN found => 1 \in DOMAIN found)
  BY DEF Form!Found
<1>2. PICK i \in DOMAIN found : found[i] = found[k] /\ \A j \in 1 .. i - 1 : found[j] # found[i]
  <2>1. CASE k = 1 \/ found[1] # found[k]
    BY <1>1, <2>1
  <2>2. CASE k # 1 /\ found[1] = found[k]
    BY <1>1, <2>2
  <2> QED
    BY <2>1, <2>2
<1>3. i \in listed
  BY <1>2 DEF Form!Unique
<1>4. ASSUME NEW j \in listed, found[j] = found[k] PROVE i = j
  <2>1. j \in DOMAIN found /\ \A m \in 1 .. j - 1 : found[m] # found[j]
    BY <1>4 DEF Form!Unique
  <2>2. i \in Int /\ j \in Int /\ 1 <= i /\ 1 <= j
    BY <1>1, <2>1
  <2>3. ~(i < j) /\ ~(j < i)
    BY <1>2, <1>4, <2>1, <2>2
  <2> QED
    BY <2>2, <2>3
<1>5. Form!FieldError(f, found).listed = listed
  BY DEF Form!FieldError
<1>6. Form!FieldError(f, found).alert
  BY <1>1, <1>3 DEF Form!FieldError
<1> QED
  BY <1>2, <1>3, <1>4, <1>5, <1>6

LEMMA FormImplied == FormInv => Form!ErrorsAnnounced
<1> SUFFICES ASSUME FormInv, NEW f \in Fields
             PROVE  Form!ErrorsAnnounced!(f)
  BY DEF Form!ErrorsAnnounced
<1> DEFINE state == Form!useFormField(f)
<1>0. state.error \in BOOLEAN
  BY DEF Form!useFormField
<1>1. /\ state.formItemId = <<f, "form-item">>
      /\ state.formDescriptionId = <<f, "form-item-description">>
      /\ state.error <=> errors[f] # <<>>
      /\ state.message # Form!NoText => errors[f] # <<>> /\ state.message = errors[f][1]
  BY DEF Form!useFormField
<1>2. /\ Form!FormControl(f).id = state.formItemId
      /\ Form!FormControl(f).describedBy = {state.formDescriptionId}
            \cup IF state.error THEN {state.formMessageId} ELSE {}
      /\ Form!FormControl(f).invalid = state.error
  BY DEF Form!FormControl
<1>3. state.error /\ state.message # Form!NoText =>
         Form!FormMessage(f) = {[id |-> state.formMessageId, body |-> state.message]}
  BY DEF Form!FormMessage, Form!Body
<1> HIDE DEF state
<1>4. f \in described /\ ~(Form!FormControl(f).invalid /\ state.message = Form!NoText) =>
         Form!FormControl(f).describedBy \subseteq Form!Elements(f)
  <2> SUFFICES ASSUME f \in described, ~(state.error /\ state.message = Form!NoText)
               PROVE  Form!FormControl(f).describedBy \subseteq Form!Elements(f)
    BY <1>2
  <2>1. state.formDescriptionId \in Form!Elements(f)
    BY DEF Form!Elements, Form!FormDescription, state
  <2>2. CASE ~state.error
    BY <1>2, <2>1, <2>2
  <2>3. CASE state.error
    <3> DEFINE message == [id |-> state.formMessageId, body |-> state.message]
    <3>1. message \in Form!FormMessage(f) /\ message.id = state.formMessageId
      BY <1>3, <2>3
    <3>2. state.formMessageId \in Form!Elements(f)
      BY <3>1 DEF Form!Elements
    <3> QED
      BY <1>2, <2>1, <2>3, <3>2
  <2> QED
    BY <1>0, <2>2, <2>3
<1>5. state.message # Form!NoText =>
         \E message \in Form!FormMessage(f) :
             message.id \in Form!FormControl(f).describedBy /\ message.body = errors[f][1]
  <2> SUFFICES ASSUME state.message # Form!NoText
               PROVE  \E message \in Form!FormMessage(f) :
                          message.id \in Form!FormControl(f).describedBy
                              /\ message.body = errors[f][1]
    OBVIOUS
  <2> DEFINE message == [id |-> state.formMessageId, body |-> state.message]
  <2>1. state.error /\ message.body = errors[f][1] /\ message.id = state.formMessageId
    BY <1>1
  <2>2. message \in Form!FormMessage(f)
    BY <1>3, <2>1
  <2>3. message.id \in Form!FormControl(f).describedBy
    BY <1>2, <2>1
  <2> HIDE DEF message
  <2> QED
    BY <2>1, <2>2, <2>3
<1>6. Form!FormLabel(f).htmlFor \in Form!Elements(f)
  BY <1>2 DEF Form!FormLabel, Form!Elements, state
<1>7. Form!FormLabel(f).error <=> Form!FormControl(f).invalid
  BY <1>2 DEF Form!FormLabel, state
<1>8. ASSUME NEW message \in Messages \cap {errors[f][i] : i \in DOMAIN errors[f]}
      PROVE  /\ Form!FieldError(f, errors[f]).alert
             /\ f \notin given =>
                   \E i \in Form!FieldError(f, errors[f]).listed :
                      \A j \in Form!FieldError(f, errors[f]).listed :
                          errors[f][i] = message /\ (errors[f][j] = message => i = j)
  <2>1. PICK k \in DOMAIN errors[f] : errors[f][k] = message
    OBVIOUS
  <2>2. errors[f] \in Form!Found
    BY DEF FormInv
  <2>3. CASE f \in given
    <3>1. Form!FieldError(f, errors[f]).alert
      BY <2>3 DEF Form!FieldError
    <3> QED
      BY <2>3, <3>1
  <2>4. CASE f \notin given
    <3>1. errors[f][k] \in Messages
      BY <2>1
    <3> QED
      BY <2>1, <2>2, <2>4, <3>1, ListedOnce
  <2> QED
    BY <2>3, <2>4
<1> QED
  BY <1>4, <1>5, <1>6, <1>7, <1>8 DEF state

-----------------------------------------------------------------------------
(* The chart: once there was a point, what the tooltip remembers is what   *)
(* it would compute for the point and the config it has now.               *)
Remembers ==
    /\ memo.on = Chart!DependsOn(config, hover)
    /\ memo.label = Chart!LabelOf(config, hover)

ChartInv == (memo.on = <<>> /\ ~hover.active) \/ Remembers

LEMMA ChartInit == Chart!Init => ChartInv
  BY DEF Chart!Init, ChartInv, Chart!Away

LEMMA ChartRenderStep ==
  ASSUME ChartInv, NEW conf, NEW props, Chart!Render(conf, props)
  PROVE  ChartInv'
<1>1. config' = conf /\ hover' = props /\ options' = options
  BY DEF Chart!Render
<1>2. CASE memo.on = Chart!DependsOn(conf, props)
  <2>1. memo' = memo
    BY <1>2 DEF Chart!Render, Chart!tooltipLabel
  <2>2. memo.on # <<>>
    BY <1>2 DEF Chart!DependsOn
  <2>3. Chart!DependsOn(config, hover) = Chart!DependsOn(conf, props)
    BY <1>2, <2>2 DEF ChartInv, Remembers
  <2>4. hover.label = props.label /\ hover.payload = props.payload /\ config = conf
    BY <2>3 DEF Chart!DependsOn
  <2>5. Chart!LabelOf(conf, props) = Chart!LabelOf(config, hover)
    BY <2>4 DEF Chart!LabelOf
  <2>6. memo.label = Chart!LabelOf(conf, props)
    BY <2>2, <2>5 DEF ChartInv, Remembers
  <2>7. Chart!LabelOf(config, hover)' = Chart!LabelOf(conf, props)
    BY <1>1 DEF Chart!LabelOf
  <2>8. Chart!DependsOn(config, hover)' = Chart!DependsOn(conf, props)
    BY <1>1 DEF Chart!DependsOn
  <2> QED
    BY <1>2, <2>1, <2>6, <2>7, <2>8 DEF ChartInv, Remembers
<1>3. CASE memo.on # Chart!DependsOn(conf, props)
  <2>1. memo' = [on |-> Chart!DependsOn(conf, props), label |-> Chart!LabelOf(conf, props)]
    BY <1>3 DEF Chart!Render, Chart!tooltipLabel
  <2>2. Chart!LabelOf(config, hover)' = Chart!LabelOf(conf, props)
    BY <1>1 DEF Chart!LabelOf
  <2>3. Chart!DependsOn(config, hover)' = Chart!DependsOn(conf, props)
    BY <1>1 DEF Chart!DependsOn
  <2> QED
    BY <2>1, <2>2, <2>3 DEF ChartInv, Remembers
<1> QED
  BY <1>2, <1>3

LEMMA ChartNext == ChartInv /\ [Chart!Next]_chartVars => ChartInv'
<1> SUFFICES ASSUME ChartInv, [Chart!Next]_chartVars PROVE ChartInv'
  OBVIOUS
<1>1. CASE UNCHANGED chartVars
  BY <1>1 DEF chartVars, ChartInv, Remembers, Chart!DependsOn, Chart!LabelOf
<1>2. CASE Chart!Next
  BY <1>2, ChartRenderStep DEF Chart!Next, Chart!Hover, Chart!Leave, Chart!Reconfigure
<1> QED
  BY <1>1, <1>2

LEMMA LabelIsCurrent == ChartInv => Chart!LabelCurrent
<1> SUFFICES ASSUME ChartInv, Chart!ChartTooltipContent # None
             PROVE  /\ memo.label = Chart!LabelOf(config, hover)
                    /\ \A i \in DOMAIN Chart!ChartTooltipContent.rows :
                          Chart!ChartTooltipContent.label # None =>
                              Chart!ChartTooltipContent.rows[i].label = None
  BY DEF Chart!LabelCurrent
<1>1. hover.active /\ hover.payload # <<>>
  BY DEF Chart!ChartTooltipContent
<1>2. Remembers
  BY <1>1 DEF ChartInv
<1>3. Chart!ChartTooltipContent =
         [label |-> IF Chart!nestLabel THEN None ELSE memo.label,
          rows |-> [i \in DOMAIN Chart!Shown(hover.payload) |->
                       Chart!TooltipRow(Chart!Shown(hover.payload)[i])]]
  BY <1>1 DEF Chart!ChartTooltipContent
<1>4. ASSUME NEW i \in DOMAIN Chart!ChartTooltipContent.rows,
             Chart!ChartTooltipContent.label # None
      PROVE  Chart!ChartTooltipContent.rows[i].label = None
  BY <1>3, <1>4 DEF Chart!TooltipRow
<1> QED
  BY <1>2, <1>4 DEF Remembers

LEMMA LegendIsTheSame == Chart!LegendAgrees
<1> SUFFICES ASSUME Chart!ChartTooltipContent # None,
                    NEW i \in DOMAIN Chart!Shown(hover.payload),
                    NEW item, item = Chart!Shown(hover.payload)[i],
                    item.name = item.dataKey, Chart!ChartLegendContent[i] # None
             PROVE  Chart!ChartTooltipContent.rows[i].name = Chart!ChartLegendContent[i]
  BY DEF Chart!LegendAgrees
<1>1. Chart!TooltipKey(item) = Chart!LegendKey(item)
  BY DEF Chart!TooltipKey, Chart!LegendKey, Chart!Else
<1>2. Chart!ChartLegendContent[i] =
         Chart!LabelIn(Chart!getPayloadConfigFromPayload(config, item, Chart!LegendKey(item)))
  BY DEF Chart!ChartLegendContent
<1>3. Chart!TooltipRow(item).name = Chart!ChartLegendContent[i]
  BY <1>1, <1>2 DEF Chart!TooltipRow, Chart!Else
<1>4. Chart!ChartTooltipContent.rows[i] = Chart!TooltipRow(item)
  BY DEF Chart!ChartTooltipContent
<1> QED
  BY <1>3, <1>4

LEMMA ColorsAreDefined == Chart!ColorsDefined
<1> DEFINE coloured == {k \in DOMAIN config : config[k].theme # None \/ config[k].color # None}
<1>1. ASSUME NEW theme PROVE {entry[1] : entry \in Chart!ChartStyle(config, theme)} = coloured
  <2> DEFINE rule(key) ==
          <<key, IF config[key].theme # None THEN config[key].theme[theme] ELSE config[key].color>>
  <2>1. Chart!ChartStyle(config, theme) = {rule(key) : key \in coloured}
    BY DEF Chart!ChartStyle
  <2>2. \A key : rule(key)[1] = key
    OBVIOUS
  <2> HIDE DEF rule, coloured
  <2> QED
    BY <2>1, <2>2
<1> QED
  BY <1>1 DEF Chart!ColorsDefined

LEMMA ChartImplied == ChartInv => Chart!TooltipTruthful
  BY LabelIsCurrent, LegendIsTheSame, ColorsAreDefined DEF Chart!TooltipTruthful

-----------------------------------------------------------------------------
(* The pages.  What Home keeps is counted, in the lists as in the trail;   *)
(* what a page shows has one event at least.                               *)
Actions == {"dynamic.lease.create", "dynamic.lease.revoke", "scanner.detect", "scanner.clean",
            "integration.sync", "pki.issue", "kms.encrypt", "access.approve", "access.reject"}

Resource == Nat \cup Providers \cup Integrations \cup CommonNames \cup {"clean", "payments-master"}
                \cup STRING

Event == [id : Nat, action : Actions, resource : Resource]

Amount(list, S) == Cardinality({i \in DOMAIN list : list[i] \in S})

EventsOf(action, resource) == {e \in Event : e.action = action /\ e.resource = resource}

Named(cn) == {c \in Pages!Certificate : c.commonName = cn}

RequestsOf(requester, status) ==
    {r \in Pages!AccessRequest : r.requester = requester /\ r.status = status}

Has(logs, action, resource) ==
    \E i \in DOMAIN logs : logs[i].action = action /\ logs[i].resource = resource

CertificatesKept ==
    \A cn \in CommonNames :
        Amount(certificates, Named(cn))
            = Amount(SeedCertificates, Named(cn)) + Amount(auditLogs, EventsOf("pki.issue", cn))

Kept(requester, status, action) ==
    Amount(accessRequests, RequestsOf(requester, status))
        = Amount(SeedRequests, RequestsOf(requester, status))
              + Amount(auditLogs, EventsOf(action, requester))

RequestsKept ==
    /\ \A i, j \in DOMAIN accessRequests :
          accessRequests[i].id = accessRequests[j].id => i = j
    /\ \A requester \in STRING :
          Kept(requester, "Approved", "access.approve") /\ Kept(requester, "Rejected", "access.reject")

LeaseTold(lease, logs) ==
    /\ lease.status = "Revoked" => Has(logs, "dynamic.lease.revoke", lease.id)
    /\ lease.id > Pages!FirstId => Has(logs, "dynamic.lease.create", lease.provider)

LeasesTold == \A i \in DOMAIN leases : LeaseTold(leases[i], auditLogs)

SyncsTold ==
    \A name \in Integrations :
        lastSync[name] = "now" => Has(auditLogs, "integration.sync", name)

CiphertextTold ==
    ciphertext # Pages!NoCiphertext => Has(auditLogs, "kms.encrypt", "payments-master")

FindingsTold == results # {} => Has(auditLogs, "scanner.detect", Cardinality(results))

PagesTyped == Pages!TypeOK /\ auditLogs \in Seq(Event)

PagesInv ==
    /\ PagesTyped
    /\ CertificatesKept /\ RequestsKept
    /\ LeasesTold /\ SyncsTold /\ CiphertextTold /\ FindingsTold

LEMMA Prepended ==
  ASSUME NEW S, NEW list \in Seq(S), NEW x \in S
  PROVE  /\ <<x>> \o list \in Seq(S)
         /\ Len(list) \in Nat /\ DOMAIN list = 1 .. Len(list)
         /\ DOMAIN (<<x>> \o list) = 1 .. Len(list) + 1
         /\ (<<x>> \o list)[1] = x
         /\ \A i \in 1 .. Len(list) : (<<x>> \o list)[i + 1] = list[i]
<1>1. /\ <<x>> \in Seq(S) /\ Len(<<x>>) = 1 /\ <<x>>[1] = x
      /\ Len(list) \in Nat /\ DOMAIN list = 1 .. Len(list)
  OBVIOUS
<1>2. /\ <<x>> \o list \in Seq(S) /\ Len(<<x>> \o list) = Len(<<x>>) + Len(list)
      /\ \A i \in 1 .. Len(<<x>>) + Len(list) :
            (<<x>> \o list)[i] = IF i <= Len(<<x>>) THEN <<x>>[i] ELSE list[i - Len(<<x>>)]
  BY <1>1, ConcatProperties
<1> DEFINE more == <<x>> \o list
<1> HIDE DEF more
<1>3. more[1] = x
  BY <1>1, <1>2 DEF more
<1>4. ASSUME NEW i \in 1 .. Len(list) PROVE more[i + 1] = list[i]
  <2>1. i + 1 \in 1 .. 1 + Len(list) /\ ~(i + 1 <= 1) /\ (i + 1) - 1 = i
    BY <1>1
  <2> QED
    BY <1>1, <1>2, <2>1 DEF more
<1>5. DOMAIN more = 1 .. Len(list) + 1
  BY <1>1, <1>2 DEF more
<1> QED
  BY <1>1, <1>2, <1>3, <1>4, <1>5 DEF more

LEMMA AmountFinite ==
  ASSUME NEW S, NEW list \in Seq(S), NEW T
  PROVE  /\ IsFiniteSet({i \in DOMAIN list : list[i] \in T})
         /\ Amount(list, T) \in Nat
<1>1. Len(list) \in Nat /\ DOMAIN list = 1 .. Len(list)
  OBVIOUS
<1>2. IsFiniteSet(1 .. Len(list))
  BY <1>1, FS_Interval
<1>3. IsFiniteSet({i \in DOMAIN list : list[i] \in T})
  BY <1>1, <1>2, FS_Subset
<1> QED
  BY <1>3, FS_CardinalityType DEF Amount

LEMMA AmountPrepended ==
  ASSUME NEW S, NEW list \in Seq(S), NEW x \in S, NEW T
  PROVE  Amount(<<x>> \o list, T) = Amount(list, T) + (IF x \in T THEN 1 ELSE 0)
<1> DEFINE more == <<x>> \o list
           old == {i \in DOMAIN list : list[i] \in T}
           shifted == {i \in DOMAIN more : i # 1 /\ more[i] \in T}
           new == {i \in DOMAIN more : more[i] \in T}
           f == [i \in old |-> i + 1]
<1>1. /\ Len(list) \in Nat /\ DOMAIN list = 1 .. Len(list)
      /\ DOMAIN more = 1 .. Len(list) + 1 /\ more[1] = x
      /\ \A i \in 1 .. Len(list) : more[i + 1] = list[i]
  BY Prepended
<1>2. IsFiniteSet(old) /\ Cardinality(old) \in Nat
  BY AmountFinite DEF Amount
<1>0. Amount(more, T) = Cardinality(new) /\ Amount(list, T) = Cardinality(old)
  BY DEF Amount
<1> HIDE DEF more
<1>3. f \in Bijection(old, shifted)
  <2>1. f \in [old -> shifted]
    BY <1>1
  <2>2. \A i, j \in old : f[i] = f[j] => i = j
    BY <1>1
  <2>3. ASSUME NEW j \in shifted PROVE \E i \in old : f[i] = j
    <3>1. j - 1 \in 1 .. Len(list) /\ (j - 1) + 1 = j
      BY <1>1
    <3>2. j - 1 \in old
      BY <1>1, <3>1
    <3> QED
      BY <3>1, <3>2
  <2> HIDE DEF f, old, shifted
  <2> QED
    BY <2>1, <2>2, <2>3 DEF Bijection, Injection, Surjection, IsInjective
<1>4. IsFiniteSet(shifted) /\ Cardinality(shifted) = Cardinality(old)
  <2> HIDE DEF f, old, shifted
  <2> QED
    BY <1>2, <1>3, FS_Bijection DEF ExistsBijection
<1>5. CASE x \in T
  <2>1. new = shifted \cup {1} /\ 1 \notin shifted
    BY <1>1, <1>5
  <2>2. Cardinality(new) = Cardinality(shifted) + 1
    BY <1>4, <2>1, FS_AddElement
  <2> HIDE DEF old, new, shifted
  <2> QED
    BY <1>0, <1>2, <1>4, <1>5, <2>2 DEF more
<1>6. CASE x \notin T
  <2>1. new = shifted
    BY <1>1, <1>6
  <2> HIDE DEF old, new, shifted
  <2> QED
    BY <1>0, <1>2, <1>4, <1>6, <2>1 DEF more
<1> QED
  BY <1>5, <1>6

LEMMA HasPrepended ==
  ASSUME NEW logs \in Seq(Event), NEW e \in Event
  PROVE  /\ Has(<<e>> \o logs, e.action, e.resource)
         /\ \A action, resource : Has(logs, action, resource) =>
                                      Has(<<e>> \o logs, action, resource)
<1> DEFINE more == <<e>> \o logs
<1>1. /\ Len(logs) \in Nat /\ DOMAIN logs = 1 .. Len(logs)
      /\ DOMAIN more = 1 .. Len(logs) + 1 /\ more[1] = e
      /\ \A i \in 1 .. Len(logs) : more[i + 1] = logs[i]
  BY Prepended
<1> HIDE DEF more
<1>2. Has(more, e.action, e.resource)
  BY <1>1 DEF Has
<1>3. ASSUME NEW action, NEW resource, Has(logs, action, resource)
      PROVE  Has(more, action, resource)
  <2>1. PICK i \in 1 .. Len(logs) : logs[i].action = action /\ logs[i].resource = resource
    BY <1>1, <1>3 DEF Has
  <2>2. i + 1 \in DOMAIN more /\ more[i + 1] = logs[i]
    BY <1>1
  <2> QED
    BY <2>1, <2>2 DEF Has
<1> QED
  BY <1>2, <1>3 DEF more

(* A handler draws numbers and writes one event.                           *)
LogGrows(action, resource) ==
    /\ globalSeqCounter' \in Pages!FirstId .. MaxId /\ globalSeqCounter < globalSeqCounter'
    /\ auditLogs' \in Seq(Event)
    /\ \A i \in DOMAIN auditLogs' :
          auditLogs'[i].id \in Pages!FirstId + 1 .. globalSeqCounter'
    /\ Has(auditLogs', action, resource)
    /\ \A a, r : Has(auditLogs, a, r) => Has(auditLogs', a, r)
    /\ \A a, r : Amount(auditLogs', EventsOf(a, r)) =
          Amount(auditLogs, EventsOf(a, r)) + (IF action = a /\ resource = r THEN 1 ELSE 0)

LEMMA LogStep ==
  ASSUME PagesInv, NEW n \in Nat \ {0}, Pages!Draws(n),
         NEW action \in Actions, NEW resource \in Resource, Pages!logEvent(action, resource)
  PROVE  LogGrows(action, resource)
<1> DEFINE e == [id |-> globalSeqCounter', action |-> action, resource |-> resource]
<1>1. /\ globalSeqCounter \in Nat /\ globalSeqCounter >= Pages!FirstId /\ Pages!FirstId \in Nat
      /\ globalSeqCounter' = globalSeqCounter + n /\ globalSeqCounter' <= MaxId
  BY BoundsAssumption DEF PagesInv, PagesTyped, Pages!TypeOK, Pages!Draws, Pages!FirstId
<1>2. globalSeqCounter' \in Pages!FirstId .. MaxId /\ globalSeqCounter < globalSeqCounter'
  BY <1>1, BoundsAssumption
<1>3. e \in Event /\ e.action = action /\ e.resource = resource /\ e.id = globalSeqCounter'
  BY <1>1 DEF Event
<1>4. auditLogs \in Seq(Event) /\ auditLogs' = <<e>> \o auditLogs
  BY DEF PagesInv, PagesTyped, Pages!logEvent
<1> HIDE DEF e
<1>5. auditLogs' \in Seq(Event)
  BY <1>3, <1>4, Prepended
<1>6. ASSUME NEW i \in DOMAIN auditLogs'
      PROVE  auditLogs'[i].id \in Pages!FirstId + 1 .. globalSeqCounter'
  <2>1. /\ Len(auditLogs) \in Nat /\ DOMAIN auditLogs = 1 .. Len(auditLogs)
        /\ DOMAIN auditLogs' = 1 .. Len(auditLogs) + 1 /\ auditLogs'[1] = e
        /\ \A j \in 1 .. Len(auditLogs) : auditLogs'[j + 1] = auditLogs[j]
    BY <1>3, <1>4, Prepended
  <2>2. CASE i = 1
    BY <1>1, <1>3, <2>1, <2>2
  <2>3. CASE i # 1
    <3>1. i - 1 \in 1 .. Len(auditLogs) /\ (i - 1) + 1 = i
      BY <2>1, <2>3
    <3>2. auditLogs'[i] = auditLogs[i - 1] /\ i - 1 \in DOMAIN auditLogs
      BY <2>1, <3>1
    <3>3. auditLogs[i - 1].id \in Pages!FirstId + 1 .. globalSeqCounter
      BY <3>2 DEF PagesInv, PagesTyped, Pages!TypeOK
    <3> QED
      BY <1>1, <3>2, <3>3
  <2> QED
    BY <2>2, <2>3
<1>7. /\ Has(auditLogs', action, resource)
      /\ \A a, r : Has(auditLogs, a, r) => Has(auditLogs', a, r)
  BY <1>3, <1>4, HasPrepended
<1>8. ASSUME NEW a, NEW r
      PROVE  Amount(auditLogs', EventsOf(a, r)) =
                Amount(auditLogs, EventsOf(a, r)) + (IF action = a /\ resource = r THEN 1 ELSE 0)
  <2>1. e \in EventsOf(a, r) <=> action = a /\ resource = r
    BY <1>3 DEF EventsOf
  <2> QED
    BY <1>3, <1>4, <2>1, AmountPrepended
<1> QED
  BY <1>2, <1>5, <1>6, <1>7, <1>8 DEF LogGrows

(* What is kept stays accounted for when another handler logs, and what is *)
(* shown has its event still.                                              *)
LEMMA CertificatesStay ==
  ASSUME PagesInv, NEW action, NEW resource, LogGrows(action, resource),
         action # "pki.issue", UNCHANGED certificates
  PROVE  CertificatesKept'
<1> SUFFICES ASSUME NEW cn \in CommonNames
             PROVE  Amount(certificates', Named(cn)) = Amount(SeedCertificates, Named(cn))
                                                + Amount(auditLogs', EventsOf("pki.issue", cn))
  BY DEF CertificatesKept
<1>1. /\ Amount(auditLogs', EventsOf("pki.issue", cn))
             = Amount(auditLogs, EventsOf("pki.issue", cn)) + 0
      /\ Amount(auditLogs, EventsOf("pki.issue", cn)) \in Nat
  BY AmountFinite DEF LogGrows, PagesInv, PagesTyped
<1>2. Amount(certificates, Named(cn)) = Amount(SeedCertificates, Named(cn))
                                            + Amount(auditLogs, EventsOf("pki.issue", cn))
  BY DEF PagesInv, CertificatesKept
<1> QED
  BY <1>1, <1>2

LEMMA RequestsStay ==
  ASSUME PagesInv, NEW action, NEW resource, LogGrows(action, resource),
         action \notin {"access.approve", "access.reject"}, UNCHANGED accessRequests
  PROVE  RequestsKept'
<1>1. ASSUME NEW requester \in STRING, NEW a \in {"access.approve", "access.reject"}
      PROVE  Amount(auditLogs', EventsOf(a, requester)) = Amount(auditLogs, EventsOf(a, requester))
  <2>1. Amount(auditLogs, EventsOf(a, requester)) \in Nat
    BY AmountFinite DEF PagesInv, PagesTyped
  <2> QED
    BY <2>1 DEF LogGrows
<1> QED
  BY <1>1 DEF PagesInv, RequestsKept, Kept

LEMMA PageStays ==
  ASSUME PagesInv, NEW action, NEW resource, LogGrows(action, resource)
  PROVE  /\ UNCHANGED leases => LeasesTold'
         /\ UNCHANGED lastSync => SyncsTold'
         /\ UNCHANGED ciphertext => CiphertextTold'
         /\ UNCHANGED results => FindingsTold'
  BY DEF LogGrows, PagesInv, LeasesTold, LeaseTold, SyncsTold, CiphertextTold, FindingsTold

(* Nothing is logged.                                                      *)
LEMMA SilentStep ==
  ASSUME PagesInv, UNCHANGED <<globalSeqCounter, certificates, accessRequests, auditLogs>>,
         section' \in Pages!Sections, open' \in BOOLEAN, code' \subseteq Leaks,
         \/ UNCHANGED <<leases, results, lastSync, ciphertext>>
         \/ /\ leases' = SeedLeases /\ results' = {} /\ ciphertext' = Pages!NoCiphertext
            /\ lastSync' = [i \in Integrations |-> "earlier"]
  PROVE  PagesInv'
<1>1. CertificatesKept' /\ RequestsKept'
  BY DEF PagesInv, CertificatesKept, RequestsKept, Kept
<1>2. CASE UNCHANGED <<leases, results, lastSync, ciphertext>>
  <2>1. LeasesTold' /\ SyncsTold' /\ CiphertextTold' /\ FindingsTold'
    BY <1>2 DEF PagesInv, LeasesTold, LeaseTold, SyncsTold, CiphertextTold, FindingsTold
  <2>2. PagesTyped'
    BY <1>2 DEF PagesInv, PagesTyped, Pages!TypeOK
  <2> QED
    BY <1>1, <2>1, <2>2 DEF PagesInv
<1>3. CASE /\ leases' = SeedLeases /\ results' = {} /\ ciphertext' = Pages!NoCiphertext
           /\ lastSync' = [i \in Integrations |-> "earlier"]
  <2>1. LeasesTold'
    <3>1. ASSUME NEW i \in DOMAIN SeedLeases
          PROVE  LeaseTold(SeedLeases[i], auditLogs')
      <4>1. /\ SeedLeases[i] \in Pages!DynamicLease
            /\ SeedLeases[i].status = "Active" /\ SeedLeases[i].id <= Pages!FirstId
        BY SeedAssumption
      <4>2. SeedLeases[i].id \in Nat /\ Pages!FirstId \in Nat
        BY <4>1 DEF Pages!DynamicLease, Pages!FirstId
      <4> QED
        BY <4>1, <4>2 DEF LeaseTold
    <3> QED
      BY <1>3, <3>1 DEF LeasesTold
  <2>2. SyncsTold' /\ CiphertextTold' /\ FindingsTold'
    BY <1>3 DEF SyncsTold, CiphertextTold, FindingsTold
  <2>3. PagesTyped'
    BY <1>3, SeedAssumption DEF PagesInv, PagesTyped, Pages!TypeOK
  <2> QED
    BY <1>1, <2>1, <2>2, <2>3 DEF PagesInv
<1> QED
  BY <1>2, <1>3

LEMMA PagesInit == Pages!Init => PagesInv
<1> SUFFICES ASSUME Pages!Init PROVE PagesInv
  OBVIOUS
<1>1. /\ globalSeqCounter = Pages!FirstId /\ section = "DynamicSecrets" /\ open = FALSE
      /\ certificates = SeedCertificates /\ accessRequests = SeedRequests /\ auditLogs = <<>>
      /\ leases = SeedLeases /\ code = Leaks /\ results = {} /\ ciphertext = Pages!NoCiphertext
      /\ lastSync = [i \in Integrations |-> "earlier"]
  BY DEF Pages!Init, Pages!PageState
<1>2. PagesTyped
  <2>1. globalSeqCounter \in Pages!FirstId .. MaxId
    BY <1>1, BoundsAssumption DEF Pages!FirstId
  <2>2. auditLogs \in Seq(Event) /\ DOMAIN auditLogs = {}
    BY <1>1
  <2>3. section \in Pages!Sections /\ open \in BOOLEAN
    BY <1>1 DEF Pages!Sections
  <2>4. lastSync \in [Integrations -> {"earlier", "now"}]
    BY <1>1
  <2> QED
    BY <1>1, <2>1, <2>2, <2>3, <2>4, SeedAssumption DEF PagesTyped, Pages!TypeOK
<1>3. \A T : Amount(auditLogs, T) = 0
  BY <1>1, FS_EmptySet DEF Amount
<1>4. \A T : Amount(SeedCertificates, T) \in Nat /\ Amount(SeedRequests, T) \in Nat
  BY SeedAssumption, AmountFinite
<1>5. CertificatesKept
  BY <1>1, <1>3, <1>4 DEF CertificatesKept
<1>6. RequestsKept
  BY <1>1, <1>3, <1>4, SeedAssumption DEF RequestsKept, Kept
<1>7. LeasesTold
  <2>1. ASSUME NEW i \in DOMAIN SeedLeases
        PROVE  LeaseTold(SeedLeases[i], auditLogs)
    <3>1. /\ SeedLeases[i] \in Pages!DynamicLease
          /\ SeedLeases[i].status = "Active" /\ SeedLeases[i].id <= Pages!FirstId
      BY SeedAssumption
    <3>2. SeedLeases[i].id \in Nat /\ Pages!FirstId \in Nat
      BY <3>1 DEF Pages!DynamicLease, Pages!FirstId
    <3> QED
      BY <3>1, <3>2 DEF LeaseTold
  <2> QED
    BY <1>1, <2>1 DEF LeasesTold
<1>8. SyncsTold /\ CiphertextTold /\ FindingsTold
  BY <1>1 DEF SyncsTold, CiphertextTold, FindingsTold
<1> QED
  BY <1>2, <1>5, <1>6, <1>7, <1>8 DEF PagesInv

(* One after the other.                                                    *)
LEMMA SetSectionStep ==
  ASSUME PagesInv, NEW page \in Pages!Sections, Pages!setSection(page)
  PROVE  PagesInv'
<1>1. /\ UNCHANGED <<globalSeqCounter, certificates, accessRequests, auditLogs, open>>
      /\ section' = page /\ code' = Leaks
      /\ leases' = SeedLeases /\ results' = {} /\ ciphertext' = Pages!NoCiphertext
      /\ lastSync' = [i \in Integrations |-> "earlier"]
  BY DEF Pages!setSection, Pages!PageState, Pages!home
<1>2. open' \in BOOLEAN
  BY <1>1 DEF PagesInv, PagesTyped, Pages!TypeOK
<1> QED
  BY <1>1, <1>2, SilentStep

LEMMA SetOpenStep ==
  ASSUME PagesInv, Pages!setOpen
  PROVE  PagesInv'
<1>1. /\ UNCHANGED <<globalSeqCounter, certificates, accessRequests, auditLogs, section>>
      /\ UNCHANGED <<leases, code, results, lastSync, ciphertext>>
  BY DEF Pages!setOpen, Pages!home, Pages!local
<1>2. open' \in BOOLEAN
  BY DEF Pages!setOpen
<1>3. section' \in Pages!Sections /\ code' \subseteq Leaks
  BY <1>1 DEF PagesInv, PagesTyped, Pages!TypeOK
<1> QED
  BY <1>1, <1>2, <1>3, SilentStep

LEMMA SetCodeStep ==
  ASSUME PagesInv, NEW leaks \in SUBSET Leaks, Pages!setCode(leaks)
  PROVE  PagesInv'
<1>1. /\ UNCHANGED <<globalSeqCounter, certificates, accessRequests, auditLogs, section>>
      /\ UNCHANGED <<leases, results, lastSync, ciphertext, open>>
      /\ code' \subseteq Leaks
  BY DEF Pages!setCode, Pages!home
<1>2. section' \in Pages!Sections /\ open' \in BOOLEAN
  BY <1>1 DEF PagesInv, PagesTyped, Pages!TypeOK
<1> QED
  BY <1>1, <1>2, SilentStep

(* What is left to see of a handler that logs one event.                   *)
LEMMA LoggedStep ==
  ASSUME PagesInv, NEW action, NEW resource, LogGrows(action, resource),
         UNCHANGED <<section, code>>, open' \in BOOLEAN,
         certificates' \in Seq(Pages!Certificate), CertificatesKept',
         accessRequests' \in Seq(Pages!AccessRequest), RequestsKept',
         leases' \in Seq(Pages!DynamicLease), LeasesTold',
         results' \subseteq Leaks, FindingsTold',
         lastSync' \in [Integrations -> {"earlier", "now"}], SyncsTold',
         ciphertext' \in Pages!Ciphertext \cup {Pages!NoCiphertext}, CiphertextTold'
  PROVE  PagesInv'
<1>1. section' \in Pages!Sections /\ code' \subseteq Leaks
  BY DEF PagesInv, PagesTyped, Pages!TypeOK
<1>2. PagesTyped'
  BY <1>1 DEF LogGrows, PagesTyped, Pages!TypeOK
<1> QED
  BY <1>2 DEF PagesInv

LEMMA SyncStep ==
  ASSUME PagesInv, NEW name \in Integrations, Pages!handleSync(name)
  PROVE  PagesInv'
<1>1. /\ UNCHANGED <<section, certificates, accessRequests, leases, code, results, ciphertext, open>>
      /\ lastSync' = [lastSync EXCEPT ![name] = "now"]
      /\ Pages!Draws(1) /\ Pages!logEvent("integration.sync", name)
  BY DEF Pages!handleSync, Pages!home
<1>2. LogGrows("integration.sync", name)
  <2>1. name \in Resource /\ "integration.sync" \in Actions /\ 1 \in Nat \ {0}
    BY DEF Resource, Actions
  <2> QED
    BY <1>1, <2>1, LogStep
<1>3. CertificatesKept' /\ RequestsKept' /\ LeasesTold' /\ CiphertextTold' /\ FindingsTold'
  BY <1>1, <1>2, CertificatesStay, RequestsStay, PageStays
<1>4. lastSync \in [Integrations -> {"earlier", "now"}] /\ open' \in BOOLEAN
  BY <1>1 DEF PagesInv, PagesTyped, Pages!TypeOK
<1>5. SyncsTold'
  BY <1>1, <1>2, <1>4 DEF LogGrows, PagesInv, SyncsTold
<1>6. lastSync' \in [Integrations -> {"earlier", "now"}]
  BY <1>1, <1>4
<1>7. /\ certificates' \in Seq(Pages!Certificate) /\ accessRequests' \in Seq(Pages!AccessRequest)
      /\ leases' \in Seq(Pages!DynamicLease) /\ results' \subseteq Leaks
      /\ ciphertext' \in Pages!Ciphertext \cup {Pages!NoCiphertext}
  BY <1>1 DEF PagesInv, PagesTyped, Pages!TypeOK
<1> QED
  BY <1>1, <1>2, <1>3, <1>4, <1>5, <1>6, <1>7, LoggedStep

LEMMA EncryptStep ==
  ASSUME PagesInv, NEW plaintext \in Plaintexts, Pages!handleEncrypt(plaintext)
  PROVE  PagesInv'
<1>1. /\ UNCHANGED <<section, certificates, accessRequests, leases, code, results, lastSync, open>>
      /\ ciphertext' = [payload |-> plaintext, tag |-> globalSeqCounter + 1]
      /\ Pages!Draws(2) /\ Pages!logEvent("kms.encrypt", "payments-master")
  BY DEF Pages!handleEncrypt, Pages!home
<1>2. LogGrows("kms.encrypt", "payments-master")
  <2>1. "payments-master" \in Resource /\ "kms.encrypt" \in Actions /\ 2 \in Nat \ {0}
    BY DEF Resource, Actions
  <2> QED
    BY <1>1, <2>1, LogStep
<1>3. CertificatesKept' /\ RequestsKept' /\ LeasesTold' /\ SyncsTold' /\ FindingsTold'
  BY <1>1, <1>2, CertificatesStay, RequestsStay, PageStays
<1>4. CiphertextTold'
  BY <1>2 DEF LogGrows, CiphertextTold
<1>5. ciphertext' \in Pages!Ciphertext
  <2>1. globalSeqCounter \in Nat
    BY BoundsAssumption DEF PagesInv, PagesTyped, Pages!TypeOK, Pages!FirstId
  <2> QED
    BY <1>1, <2>1 DEF Pages!Ciphertext
<1>6. /\ certificates' \in Seq(Pages!Certificate) /\ accessRequests' \in Seq(Pages!AccessRequest)
      /\ leases' \in Seq(Pages!DynamicLease) /\ results' \subseteq Leaks
      /\ lastSync' \in [Integrations -> {"earlier", "now"}] /\ open' \in BOOLEAN
  BY <1>1 DEF PagesInv, PagesTyped, Pages!TypeOK
<1> QED
  BY <1>1, <1>2, <1>3, <1>4, <1>5, <1>6, LoggedStep

LEMMA RunScanStep ==
  ASSUME PagesInv, Pages!handleRunScan
  PROVE  PagesInv'
<1> DEFINE found == Leaks \cap code
<1>1. /\ UNCHANGED <<section, certificates, accessRequests, leases, code, lastSync, ciphertext,
                     open>>
      /\ results' = found /\ Pages!Draws(1)
      /\ IF found # {} THEN Pages!logEvent("scanner.detect", Cardinality(found))
         ELSE Pages!logEvent("scanner.clean", "clean")
  BY SameCardinality DEF Pages!handleRunScan, Pages!home
<1>2. Cardinality(found) \in Nat
  <2>1. IsFiniteSet(found)
    BY LeaksAssumption, FS_Subset
  <2> QED
    BY <2>1, FS_CardinalityType
<1> HIDE DEF found
<1>3. \E action \in {"scanner.detect", "scanner.clean"}, resource \in Resource :
         /\ LogGrows(action, resource)
         /\ found # {} => action = "scanner.detect" /\ resource = Cardinality(found)
  <2>1. /\ Cardinality(found) \in Resource /\ "clean" \in Resource
        /\ "scanner.detect" \in Actions /\ "scanner.clean" \in Actions /\ 1 \in Nat \ {0}
    BY <1>2 DEF Resource, Actions
  <2>2. CASE found # {}
    <3>1. LogGrows("scanner.detect", Cardinality(found))
      BY <1>1, <2>1, <2>2, LogStep
    <3> QED
      BY <2>1, <3>1
  <2>3. CASE found = {}
    <3>1. LogGrows("scanner.clean", "clean")
      BY <1>1, <2>1, <2>3, LogStep
    <3> QED
      BY <2>1, <2>3, <3>1
  <2> QED
    BY <2>2, <2>3
<1>4. PICK action \in {"scanner.detect", "scanner.clean"}, resource \in Resource :
         /\ LogGrows(action, resource)
         /\ found # {} => action = "scanner.detect" /\ resource = Cardinality(found)
  BY <1>3
<1>5. CertificatesKept' /\ RequestsKept' /\ LeasesTold' /\ SyncsTold' /\ CiphertextTold'
  BY <1>1, <1>4, CertificatesStay, RequestsStay, PageStays
<1>6. FindingsTold'
  BY <1>1, <1>4 DEF LogGrows, FindingsTold
<1>7. results' \subseteq Leaks
  BY <1>1 DEF found
<1>8. /\ certificates' \in Seq(Pages!Certificate) /\ accessRequests' \in Seq(Pages!AccessRequest)
      /\ leases' \in Seq(Pages!DynamicLease) /\ open' \in BOOLEAN
      /\ lastSync' \in [Integrations -> {"earlier", "now"}]
      /\ ciphertext' \in Pages!Ciphertext \cup {Pages!NoCiphertext}
  BY <1>1 DEF PagesInv, PagesTyped, Pages!TypeOK
<1> QED
  BY <1>1, <1>4, <1>5, <1>6, <1>7, <1>8, LoggedStep

LEMMA IssueCertStep ==
  ASSUME PagesInv, NEW cn \in CommonNames, Pages!handleIssueCert(cn)
  PROVE  PagesInv'
<1> DEFINE new == Pages!NewCertificate(cn)
<1>1. /\ UNCHANGED <<section, accessRequests, leases, code, results, lastSync, ciphertext>>
      /\ certificates' = <<new>> \o certificates /\ open' = FALSE
      /\ Pages!Draws(2) /\ Pages!logEvent("pki.issue", cn)
  BY DEF Pages!handleIssueCert, Pages!local
<1>2. new \in Pages!Certificate /\ new.commonName = cn
  <2>1. globalSeqCounter \in Nat
    BY BoundsAssumption DEF PagesInv, PagesTyped, Pages!TypeOK, Pages!FirstId
  <2> QED
    BY <2>1 DEF Pages!NewCertificate, Pages!Certificate
<1> HIDE DEF new
<1>3. LogGrows("pki.issue", cn)
  <2>1. cn \in Resource /\ "pki.issue" \in Actions /\ 2 \in Nat \ {0}
    BY DEF Resource, Actions
  <2> QED
    BY <1>1, <2>1, LogStep
<1>4. RequestsKept' /\ LeasesTold' /\ SyncsTold' /\ CiphertextTold' /\ FindingsTold'
  BY <1>1, <1>3, RequestsStay, PageStays
<1>5. certificates \in Seq(Pages!Certificate)
  BY DEF PagesInv, PagesTyped, Pages!TypeOK
<1>6. certificates' \in Seq(Pages!Certificate)
  BY <1>1, <1>2, <1>5, Prepended
<1>7. CertificatesKept'
  <2> SUFFICES ASSUME NEW other \in CommonNames
               PROVE  Amount(certificates', Named(other))
                          = Amount(SeedCertificates, Named(other))
                                + Amount(auditLogs', EventsOf("pki.issue", other))
    BY DEF CertificatesKept
  <2>1. Amount(certificates, Named(other))
           = Amount(SeedCertificates, Named(other))
                 + Amount(auditLogs, EventsOf("pki.issue", other))
    BY DEF PagesInv, CertificatesKept
  <2>2. Amount(certificates', Named(other))
           = Amount(certificates, Named(other)) + (IF new \in Named(other) THEN 1 ELSE 0)
    BY <1>1, <1>2, <1>5, AmountPrepended
  <2>3. new \in Named(other) <=> cn = other
    BY <1>2 DEF Named
  <2>4. Amount(auditLogs', EventsOf("pki.issue", other))
           = Amount(auditLogs, EventsOf("pki.issue", other)) + (IF cn = other THEN 1 ELSE 0)
    BY <1>3 DEF LogGrows
  <2>5. /\ Amount(SeedCertificates, Named(other)) \in Nat
        /\ Amount(auditLogs, EventsOf("pki.issue", other)) \in Nat
    BY SeedAssumption, AmountFinite DEF PagesInv, PagesTyped
  <2>6. CASE cn = other
    BY <2>1, <2>2, <2>3, <2>4, <2>5, <2>6
  <2>7. CASE cn # other
    BY <2>1, <2>2, <2>3, <2>4, <2>5, <2>7
  <2> QED
    BY <2>6, <2>7
<1>8. /\ accessRequests' \in Seq(Pages!AccessRequest) /\ leases' \in Seq(Pages!DynamicLease)
      /\ results' \subseteq Leaks /\ lastSync' \in [Integrations -> {"earlier", "now"}]
      /\ ciphertext' \in Pages!Ciphertext \cup {Pages!NoCiphertext}
  BY <1>1 DEF PagesInv, PagesTyped, Pages!TypeOK
<1> QED
  BY <1>1, <1>3, <1>4, <1>6, <1>7, <1>8, LoggedStep

LEMMA GenerateLeaseStep ==
  ASSUME PagesInv, NEW provider \in Providers, Pages!handleGenerateLease(provider)
  PROVE  PagesInv'
<1> DEFINE new == Pages!NewLease(provider)
<1>1. /\ UNCHANGED <<section, certificates, accessRequests, code, results, lastSync, ciphertext>>
      /\ leases' = <<new>> \o leases /\ open' = FALSE
      /\ Pages!Draws(4) /\ Pages!logEvent("dynamic.lease.create", provider)
  BY DEF Pages!handleGenerateLease, Pages!home
<1>2. new \in Pages!DynamicLease /\ new.status = "Active" /\ new.provider = provider
  <2>1. globalSeqCounter \in Nat
    BY BoundsAssumption DEF PagesInv, PagesTyped, Pages!TypeOK, Pages!FirstId
  <2> QED
    BY <2>1 DEF Pages!NewLease, Pages!DynamicLease
<1> HIDE DEF new
<1>3. LogGrows("dynamic.lease.create", provider)
  <2>1. provider \in Resource /\ "dynamic.lease.create" \in Actions /\ 4 \in Nat \ {0}
    BY DEF Resource, Actions
  <2> QED
    BY <1>1, <2>1, LogStep
<1>4. CertificatesKept' /\ RequestsKept' /\ SyncsTold' /\ CiphertextTold' /\ FindingsTold'
  BY <1>1, <1>3, CertificatesStay, RequestsStay, PageStays
<1>5. leases \in Seq(Pages!DynamicLease)
  BY DEF PagesInv, PagesTyped, Pages!TypeOK
<1>6. /\ leases' \in Seq(Pages!DynamicLease)
      /\ Len(leases) \in Nat /\ DOMAIN leases = 1 .. Len(leases)
      /\ DOMAIN leases' = 1 .. Len(leases) + 1 /\ leases'[1] = new
      /\ \A i \in 1 .. Len(leases) : leases'[i + 1] = leases[i]
  BY <1>1, <1>2, <1>5, Prepended
<1>7. LeasesTold'
  <2> SUFFICES ASSUME NEW i \in DOMAIN leases' PROVE LeaseTold(leases'[i], auditLogs')
    BY DEF LeasesTold
  <2>1. CASE i = 1
    BY <1>2, <1>3, <1>6, <2>1 DEF LeaseTold, LogGrows
  <2>2. CASE i # 1
    <3>1. i - 1 \in DOMAIN leases /\ (i - 1) + 1 = i
      BY <1>6, <2>2
    <3>2. leases'[i] = leases[i - 1]
      BY <1>6, <3>1
    <3>3. LeaseTold(leases[i - 1], auditLogs)
      BY <3>1 DEF PagesInv, LeasesTold
    <3> QED
      BY <1>3, <3>2, <3>3 DEF LeaseTold, LogGrows
  <2> QED
    BY <2>1, <2>2
<1>8. /\ certificates' \in Seq(Pages!Certificate) /\ accessRequests' \in Seq(Pages!AccessRequest)
      /\ results' \subseteq Leaks /\ lastSync' \in [Integrations -> {"earlier", "now"}]
      /\ ciphertext' \in Pages!Ciphertext \cup {Pages!NoCiphertext}
  BY <1>1 DEF PagesInv, PagesTyped, Pages!TypeOK
<1> QED
  BY <1>1, <1>3, <1>4, <1>6, <1>7, <1>8, LoggedStep

LEMMA Rewritten ==
  ASSUME NEW S, NEW list \in Seq(S), NEW other \in [DOMAIN list -> S]
  PROVE  other \in Seq(S) /\ DOMAIN other = DOMAIN list
<1>1. Len(list) \in Nat /\ DOMAIN list = 1 .. Len(list)
  OBVIOUS
<1>2. other \in [1 .. Len(list) -> S]
  BY <1>1
<1> QED
  BY <1>1, <1>2, SeqDef

LEMMA RevokeLeaseStep ==
  ASSUME PagesInv, NEW k \in DOMAIN leases, Pages!handleRevokeLease(leases[k])
  PROVE  PagesInv'
<1> DEFINE id == leases[k].id
           after == [i \in DOMAIN leases |->
                        IF leases[i].id = id THEN [leases[i] EXCEPT !.status = "Revoked"]
                        ELSE leases[i]]
<1>1. /\ UNCHANGED <<section, certificates, accessRequests, code, results, lastSync, ciphertext,
                     open>>
      /\ leases' = after
      /\ Pages!Draws(1) /\ Pages!logEvent("dynamic.lease.revoke", id)
  BY DEF Pages!handleRevokeLease, Pages!home, Pages!WithStatus
<1>2. leases \in Seq(Pages!DynamicLease) /\ leases[k] \in Pages!DynamicLease
  BY DEF PagesInv, PagesTyped, Pages!TypeOK
<1>3. \A i \in DOMAIN leases : leases[i] \in Pages!DynamicLease
  BY <1>2
<1>4. after \in [DOMAIN leases -> Pages!DynamicLease]
  BY <1>3 DEF Pages!DynamicLease
<1>5. leases' \in Seq(Pages!DynamicLease) /\ DOMAIN leases' = DOMAIN leases
  BY <1>1, <1>2, <1>4, Rewritten
<1>6. LogGrows("dynamic.lease.revoke", id)
  <2>1. id \in Resource /\ "dynamic.lease.revoke" \in Actions /\ 1 \in Nat \ {0}
    BY <1>2 DEF Resource, Actions, Pages!DynamicLease
  <2> HIDE DEF id, after
  <2> QED
    BY <1>1, <2>1, LogStep
<1>7. CertificatesKept' /\ RequestsKept' /\ SyncsTold' /\ CiphertextTold' /\ FindingsTold'
  <2> HIDE DEF id, after
  <2> QED
    BY <1>1, <1>6, CertificatesStay, RequestsStay, PageStays
<1>8. LeasesTold'
  <2> SUFFICES ASSUME NEW i \in DOMAIN leases PROVE LeaseTold(leases'[i], auditLogs')
    BY <1>5 DEF LeasesTold
  <2>1. LeaseTold(leases[i], auditLogs)
    BY DEF PagesInv, LeasesTold
  <2>2. LeaseTold(leases[i], auditLogs')
    BY <1>6, <2>1 DEF LeaseTold, LogGrows
  <2>3. CASE leases[i].id = id
    <3>1. leases'[i].id = id /\ leases'[i].provider = leases[i].provider
      BY <1>1, <1>3, <2>3 DEF Pages!DynamicLease
    <3>2. Has(auditLogs', "dynamic.lease.revoke", id)
      BY <1>6 DEF LogGrows
    <3> HIDE DEF id
    <3> QED
      BY <2>2, <2>3, <3>1, <3>2 DEF LeaseTold
  <2>4. CASE leases[i].id # id
    <3>1. leases'[i] = leases[i]
      BY <1>1, <2>4
    <3> QED
      BY <2>2, <3>1
  <2> QED
    BY <2>3, <2>4
<1>9. /\ certificates' \in Seq(Pages!Certificate) /\ accessRequests' \in Seq(Pages!AccessRequest)
      /\ results' \subseteq Leaks /\ lastSync' \in [Integrations -> {"earlier", "now"}]
      /\ ciphertext' \in Pages!Ciphertext \cup {Pages!NoCiphertext} /\ open' \in BOOLEAN
  BY <1>1 DEF PagesInv, PagesTyped, Pages!TypeOK
<1> HIDE DEF id, after
<1> QED
  BY <1>1, <1>5, <1>6, <1>7, <1>8, <1>9, LoggedStep

(* One entry becomes another.                                              *)
LEMMA AmountChanged ==
  ASSUME NEW S, NEW list \in Seq(S), NEW other \in Seq(S), DOMAIN other = DOMAIN list,
         NEW k \in DOMAIN list, \A i \in DOMAIN list : i # k => other[i] = list[i],
         NEW T, list[k] \notin T
  PROVE  Amount(other, T) = Amount(list, T) + (IF other[k] \in T THEN 1 ELSE 0)
<1> DEFINE old == {i \in DOMAIN list : list[i] \in T}
           new == {i \in DOMAIN other : other[i] \in T}
<1>1. IsFiniteSet(old) /\ Cardinality(old) \in Nat
  BY AmountFinite DEF Amount
<1>2. Amount(other, T) = Cardinality(new) /\ Amount(list, T) = Cardinality(old)
  BY DEF Amount
<1>3. CASE other[k] \in T
  <2>1. new = old \cup {k} /\ k \notin old
    BY <1>3
  <2>2. Cardinality(new) = Cardinality(old) + 1
    BY <1>1, <2>1, FS_AddElement
  <2> HIDE DEF old, new
  <2> QED
    BY <1>2, <1>3, <2>2
<1>4. CASE other[k] \notin T
  <2>1. new = old
    BY <1>4
  <2> HIDE DEF old, new
  <2> QED
    BY <1>1, <1>2, <1>4, <2>1
<1> QED
  BY <1>3, <1>4

LEMMA DecideStep ==
  ASSUME PagesInv, NEW k \in DOMAIN accessRequests, NEW status, NEW action,
         \/ status = "Approved" /\ action = "access.approve"
         \/ status = "Rejected" /\ action = "access.reject",
         Pages!Decide(accessRequests[k], status, action)
  PROVE  PagesInv'
<1> DEFINE request == accessRequests[k]
           after == [i \in DOMAIN accessRequests |->
                        IF accessRequests[i].id = request.id
                        THEN [accessRequests[i] EXCEPT !.status = status]
                        ELSE accessRequests[i]]
<1>1. /\ UNCHANGED <<section, certificates, leases, code, results, lastSync, ciphertext, open>>
      /\ request.status = "Pending" /\ accessRequests' = after
      /\ Pages!Draws(1) /\ Pages!logEvent(action, request.requester)
  BY DEF Pages!Decide, Pages!Decided, Pages!WithStatus, Pages!local
<1>2. /\ accessRequests \in Seq(Pages!AccessRequest)
      /\ \A i \in DOMAIN accessRequests : accessRequests[i] \in Pages!AccessRequest
  BY DEF PagesInv, PagesTyped, Pages!TypeOK
<1>3. \A i \in DOMAIN accessRequests : i # k => accessRequests[i].id # request.id
  BY DEF PagesInv, RequestsKept
<1>4. after \in [DOMAIN accessRequests -> Pages!AccessRequest]
  BY <1>2 DEF Pages!AccessRequest
<1>5. /\ accessRequests' \in Seq(Pages!AccessRequest)
      /\ DOMAIN accessRequests' = DOMAIN accessRequests
  BY <1>1, <1>2, <1>4, Rewritten
<1>6. \A i \in DOMAIN accessRequests : i # k => accessRequests'[i] = accessRequests[i]
  BY <1>1, <1>3
<1>7. /\ accessRequests'[k] \in Pages!AccessRequest
      /\ accessRequests'[k].id = request.id /\ accessRequests'[k].status = status
      /\ accessRequests'[k].requester = request.requester
  BY <1>1, <1>2, <1>4 DEF Pages!AccessRequest
<1> HIDE DEF after
<1>8. LogGrows(action, request.requester)
  <2>1. request.requester \in STRING
    BY <1>2 DEF Pages!AccessRequest
  <2>2. request.requester \in Resource /\ action \in Actions /\ 1 \in Nat \ {0}
    BY <2>1 DEF Resource, Actions
  <2> HIDE DEF request
  <2> QED
    BY <1>1, <2>2, LogStep
<1>9. CertificatesKept' /\ LeasesTold' /\ SyncsTold' /\ CiphertextTold' /\ FindingsTold'
  <2> HIDE DEF request
  <2> QED
    BY <1>1, <1>8, CertificatesStay, PageStays
<1>10. ASSUME NEW requester \in STRING,
              NEW s, NEW a,
              \/ s = "Approved" /\ a = "access.approve"
              \/ s = "Rejected" /\ a = "access.reject"
       PROVE  Kept(requester, s, a)'
  <2> DEFINE T == RequestsOf(requester, s)
  <2>1. request \notin T
    BY <1>1, <1>10 DEF RequestsOf
  <2>2. accessRequests'[k] \in T <=> requester = request.requester /\ s = status
    BY <1>7 DEF RequestsOf
  <2>3. s = status <=> a = action
    BY <1>10
  <2> HIDE DEF T
  <2>4. Amount(accessRequests', T)
           = Amount(accessRequests, T) + (IF accessRequests'[k] \in T THEN 1 ELSE 0)
    BY <1>2, <1>5, <1>6, <2>1, AmountChanged
  <2>5. Amount(auditLogs', EventsOf(a, requester))
           = Amount(auditLogs, EventsOf(a, requester))
                 + (IF action = a /\ request.requester = requester THEN 1 ELSE 0)
    BY <1>8 DEF LogGrows
  <2>6. Amount(accessRequests, T)
           = Amount(SeedRequests, T) + Amount(auditLogs, EventsOf(a, requester))
    BY <1>10 DEF PagesInv, RequestsKept, Kept, T
  <2>7. Amount(SeedRequests, T) \in Nat /\ Amount(auditLogs, EventsOf(a, requester)) \in Nat
    BY SeedAssumption, AmountFinite DEF PagesInv, PagesTyped
  <2>8. Amount(accessRequests', T)
           = Amount(SeedRequests, T) + Amount(auditLogs', EventsOf(a, requester))
    <3>1. CASE requester = request.requester /\ s = status
      BY <2>2, <2>3, <2>4, <2>5, <2>6, <2>7, <3>1
    <3>2. CASE ~(requester = request.requester /\ s = status)
      BY <2>2, <2>3, <2>4, <2>5, <2>6, <2>7, <3>2
    <3> QED
      BY <3>1, <3>2
  <2> QED
    BY <2>8 DEF Kept, T
<1>11. RequestsKept'
  <2>1. \A i, j \in DOMAIN accessRequests' :
           accessRequests'[i].id = accessRequests'[j].id => i = j
    <3>1. \A i \in DOMAIN accessRequests : accessRequests'[i].id = accessRequests[i].id
      BY <1>6, <1>7
    <3> QED
      BY <1>5, <3>1 DEF PagesInv, RequestsKept
  <2> QED
    BY <1>10, <2>1 DEF RequestsKept
<1>12. /\ certificates' \in Seq(Pages!Certificate) /\ leases' \in Seq(Pages!DynamicLease)
       /\ results' \subseteq Leaks /\ lastSync' \in [Integrations -> {"earlier", "now"}]
       /\ ciphertext' \in Pages!Ciphertext \cup {Pages!NoCiphertext} /\ open' \in BOOLEAN
  BY <1>1 DEF PagesInv, PagesTyped, Pages!TypeOK
<1> HIDE DEF request
<1> QED
  BY <1>1, <1>5, <1>8, <1>9, <1>11, <1>12, LoggedStep

LEMMA PagesNext == PagesInv /\ [Pages!Next]_pagesVars => PagesInv'
<1> SUFFICES ASSUME PagesInv, [Pages!Next]_pagesVars PROVE PagesInv'
  OBVIOUS
<1>1. CASE UNCHANGED pagesVars
  <2>1. section' \in Pages!Sections /\ open' \in BOOLEAN /\ code' \subseteq Leaks
    BY <1>1 DEF pagesVars, PagesInv, PagesTyped, Pages!TypeOK
  <2> QED
    BY <1>1, <2>1, SilentStep DEF pagesVars
<1>2. CASE \E page \in Pages!Sections : Pages!setSection(page)
  BY <1>2, SetSectionStep
<1>3. CASE Pages!setOpen
  BY <1>3, SetOpenStep
<1>4. CASE \E provider \in Providers : Pages!handleGenerateLease(provider)
  BY <1>4, GenerateLeaseStep
<1>5. CASE \E lease \in Pages!ToSet(leases) : Pages!handleRevokeLease(lease)
  BY <1>5, RevokeLeaseStep DEF Pages!ToSet
<1>6. CASE \E leaks \in SUBSET Leaks : Pages!setCode(leaks)
  BY <1>6, SetCodeStep
<1>7. CASE Pages!handleRunScan
  BY <1>7, RunScanStep
<1>8. CASE \E name \in Integrations : Pages!handleSync(name)
  BY <1>8, SyncStep
<1>9. CASE \E cn \in CommonNames : Pages!handleIssueCert(cn)
  BY <1>9, IssueCertStep
<1>10. CASE \E plaintext \in Plaintexts : Pages!handleEncrypt(plaintext)
  BY <1>10, EncryptStep
<1>11. CASE \E request \in Pages!ToSet(accessRequests) :
               Pages!handleApprove(request) \/ Pages!handleReject(request)
  BY <1>11, DecideStep DEF Pages!ToSet, Pages!handleApprove, Pages!handleReject
<1> QED
  BY <1>1, <1>2, <1>3, <1>4, <1>5, <1>6, <1>7, <1>8, <1>9, <1>10, <1>11 DEF Pages!Next

LEMMA PagesImplied ==
  PagesInv => Pages!TypeOK /\ Pages!KeptIsAccounted /\ Pages!ShownHasEvent
<1> SUFFICES ASSUME PagesInv
             PROVE  Pages!TypeOK /\ Pages!KeptIsAccounted /\ Pages!ShownHasEvent
  OBVIOUS
<1>1. PagesTyped /\ DOMAIN auditLogs = 1 .. Len(auditLogs) /\ Len(auditLogs) \in Nat
  BY DEF PagesInv, PagesTyped
<1>2. \A i \in DOMAIN auditLogs : auditLogs[i] \in Event
  BY <1>1 DEF PagesTyped
<1>3. ASSUME NEW action, NEW resource
      PROVE  Pages!Events(action, resource) = Amount(auditLogs, EventsOf(action, resource))
  <2>1. {i \in DOMAIN auditLogs : auditLogs[i].action = action /\ auditLogs[i].resource = resource}
           = {i \in DOMAIN auditLogs : auditLogs[i] \in EventsOf(action, resource)}
    BY <1>2 DEF EventsOf
  <2> QED
    BY <2>1, SameCardinality DEF Pages!Events, Amount
<1>4. ASSUME NEW action, NEW resource, Has(auditLogs, action, resource)
      PROVE  Pages!Events(action, resource) > 0
  <2> DEFINE found == {i \in DOMAIN auditLogs : auditLogs[i] \in EventsOf(action, resource)}
  <2>1. IsFiniteSet(found)
    BY <1>1, AmountFinite DEF PagesTyped
  <2>2. found # {}
    BY <1>2, <1>4 DEF Has, EventsOf
  <2>3. Cardinality(found) \in Nat /\ Cardinality(found) # 0
    BY <2>1, <2>2, FS_CardinalityType, FS_EmptySet
  <2>4. Pages!Events(action, resource) = Cardinality(found)
    BY <1>3 DEF Amount
  <2> QED
    BY <2>3, <2>4
<1>5. ASSUME NEW cn \in CommonNames
      PROVE  Pages!Cardinality({i \in DOMAIN certificates : certificates[i].commonName = cn})
                = Pages!Cardinality({i \in DOMAIN SeedCertificates :
                                         SeedCertificates[i].commonName = cn})
                      + Pages!Events("pki.issue", cn)
  <2>1. ASSUME NEW list \in Seq(Pages!Certificate)
        PROVE  Pages!Cardinality({i \in DOMAIN list : list[i].commonName = cn})
                  = Amount(list, Named(cn))
    <3>1. \A i \in DOMAIN list : list[i] \in Pages!Certificate
      OBVIOUS
    <3>2. {i \in DOMAIN list : list[i].commonName = cn}
             = {i \in DOMAIN list : list[i] \in Named(cn)}
      BY <3>1 DEF Named
    <3> QED
      BY <3>2, SameCardinality DEF Amount
  <2>2. certificates \in Seq(Pages!Certificate)
    BY DEF PagesInv, PagesTyped, Pages!TypeOK
  <2>3. Amount(certificates, Named(cn))
           = Amount(SeedCertificates, Named(cn)) + Amount(auditLogs, EventsOf("pki.issue", cn))
    BY DEF PagesInv, CertificatesKept
  <2> QED
    BY <1>3, <2>1, <2>2, <2>3, SeedAssumption
<1>6. ASSUME NEW requester \in STRING, NEW status, NEW action, Kept(requester, status, action)
      PROVE  Pages!Cardinality({i \in DOMAIN accessRequests :
                   accessRequests[i].requester = requester /\ accessRequests[i].status = status})
                = Pages!Cardinality({i \in DOMAIN SeedRequests :
                      SeedRequests[i].requester = requester /\ SeedRequests[i].status = status})
                      + Pages!Events(action, requester)
  <2>1. ASSUME NEW list \in Seq(Pages!AccessRequest)
        PROVE  Pages!Cardinality({i \in DOMAIN list :
                                      list[i].requester = requester /\ list[i].status = status})
                  = Amount(list, RequestsOf(requester, status))
    <3>1. \A i \in DOMAIN list : list[i] \in Pages!AccessRequest
      OBVIOUS
    <3>2. {i \in DOMAIN list : list[i].requester = requester /\ list[i].status = status}
             = {i \in DOMAIN list : list[i] \in RequestsOf(requester, status)}
      BY <3>1 DEF RequestsOf
    <3> QED
      BY <3>2, SameCardinality DEF Amount
  <2>2. accessRequests \in Seq(Pages!AccessRequest)
    BY DEF PagesInv, PagesTyped, Pages!TypeOK
  <2> QED
    BY <1>3, <1>6, <2>1, <2>2, SeedAssumption DEF Kept
<1>7. ASSUME NEW i \in DOMAIN SeedRequests
      PROVE  /\ SeedRequests[i].requester \in STRING
             /\ Kept(SeedRequests[i].requester, "Approved", "access.approve")
             /\ Kept(SeedRequests[i].requester, "Rejected", "access.reject")
  <2>1. SeedRequests[i] \in Pages!AccessRequest
    BY SeedAssumption
  <2>2. SeedRequests[i].requester \in STRING
    BY <2>1 DEF Pages!AccessRequest
  <2> QED
    BY <2>2 DEF PagesInv, RequestsKept
<1>8. Pages!KeptIsAccounted
  BY <1>5, <1>6, <1>7 DEF Pages!KeptIsAccounted
<1>9. Pages!ShownHasEvent
  <2>1. ASSUME NEW i \in DOMAIN leases
        PROVE  /\ leases[i].status = "Revoked" =>
                      Pages!Events("dynamic.lease.revoke", leases[i].id) > 0
               /\ leases[i].id > Pages!FirstId =>
                      Pages!Events("dynamic.lease.create", leases[i].provider) > 0
    BY <1>4 DEF PagesInv, LeasesTold, LeaseTold
  <2>2. \A name \in Integrations :
           lastSync[name] = "now" => Pages!Events("integration.sync", name) > 0
    BY <1>4 DEF PagesInv, SyncsTold
  <2>3. ciphertext # Pages!NoCiphertext => Pages!Events("kms.encrypt", "payments-master") > 0
    BY <1>4 DEF PagesInv, CiphertextTold
  <2>4. results # {} => Pages!Events("scanner.detect", Pages!Cardinality(results)) > 0
    BY <1>4, SameCardinality DEF PagesInv, FindingsTold
  <2> QED
    BY <2>1, <2>2, <2>3, <2>4 DEF Pages!ShownHasEvent
<1> QED
  BY <1>8, <1>9 DEF PagesInv, PagesTyped

-----------------------------------------------------------------------------
(* Side by side: a step of the composition is a step of one part, and      *)
(* leaves the others alone.                                                *)
LibraryInv ==
    /\ ClientInv /\ SidebarInv /\ CarouselInv /\ CardInv
    /\ PagesInv /\ FormInv
    /\ subject = "chart" => ChartInv

LEMMA LibraryInit == Init => LibraryInv
  BY ClientInit, SidebarInit, CarouselInit, CardInit, PagesInit, FormInit, ChartInit
     DEF Init, LibraryInv

LEMMA Parts ==
  ASSUME [Next]_vars
  PROVE  /\ subject' = subject
         /\ [Client!Next]_clientVars /\ [Sidebar!Next]_sidebarVars
         /\ [Carousel!Next]_carouselVars /\ [Card!Next]_cardVars
         /\ [Pages!Next]_pagesVars /\ [Form!Next]_formVars
         /\ subject = "chart" => [Chart!Next]_chartVars
<1>1. CASE UNCHANGED vars
  BY <1>1 DEF vars, webVars, uiVars
<1>2. CASE /\ subject = "sidebar" /\ Sidebar!Next
           /\ UNCHANGED <<subject, clientVars, carouselVars, cardVars, pagesVars, uiVars>>
  BY <1>2 DEF uiVars
<1>3. CASE /\ subject = "carousel" /\ Carousel!Next
           /\ UNCHANGED <<subject, clientVars, sidebarVars, cardVars, pagesVars, uiVars>>
  BY <1>3 DEF uiVars
<1>4. CASE /\ subject = "client" /\ Client!Next
           /\ UNCHANGED <<subject, sidebarVars, carouselVars, cardVars, pagesVars, uiVars>>
  BY <1>4 DEF uiVars
<1>5. CASE /\ subject = "card" /\ Card!Next
           /\ UNCHANGED <<subject, clientVars, sidebarVars, carouselVars, pagesVars, uiVars>>
  BY <1>5 DEF uiVars
<1>6. CASE /\ subject = "pages" /\ Pages!Next
           /\ UNCHANGED <<subject, clientVars, sidebarVars, carouselVars, cardVars, uiVars>>
  BY <1>6 DEF uiVars
<1>7. CASE /\ subject = "chart" /\ Chart!Next
           /\ UNCHANGED <<subject, webVars, formVars>>
  BY <1>7 DEF webVars
<1>8. CASE /\ subject = "form" /\ Form!Next
           /\ UNCHANGED <<subject, webVars, chartVars>>
  BY <1>8 DEF webVars
<1> QED
  BY <1>1, <1>2, <1>3, <1>4, <1>5, <1>6, <1>7, <1>8 DEF Next

LEMMA LibraryNext == LibraryInv /\ [Next]_vars => LibraryInv'
<1> SUFFICES ASSUME LibraryInv, [Next]_vars PROVE LibraryInv'
  OBVIOUS
<1>1. ClientInv' /\ SidebarInv' /\ CarouselInv' /\ CardInv'
  BY Parts, ClientNext, SidebarNext, CarouselNext, CardNext DEF LibraryInv
<1>2. PagesInv' /\ FormInv'
  BY Parts, PagesNext, FormNext DEF LibraryInv
<1>3. subject' = "chart" => ChartInv'
  BY Parts, ChartNext DEF LibraryInv
<1> QED
  BY <1>1, <1>2, <1>3 DEF LibraryInv

(* The invariants of all parts hold throughout, whichever part runs.       *)
THEOREM LibraryInductive == Spec => []LibraryInv
<1>1. Init => LibraryInv
  BY LibraryInit
<1>2. LibraryInv /\ [Next]_vars => LibraryInv'
  BY LibraryNext
<1> QED
  BY <1>1, <1>2, PTL DEF Spec

(* The sidebar, the carousel and the pages keep the types of their state.  *)
THEOREM TypesAreKept == Spec => []TypeOK
<1>1. LibraryInv => TypeOK
  BY PagesImplied DEF LibraryInv, SidebarInv, CarouselInv, TypeOK
<1> QED
  BY <1>1, LibraryInductive, PTL

(* api.ts, sidebar.tsx, secret-card.tsx: for any number of calls, renders  *)
(* and clicks, a sign-out or a login that ended while no other login was   *)
(* in flight is not undone by an older one; the cookie is what a sidebar   *)
(* is that is given neither open nor onOpenChange, from whatever render it *)
(* was written; and where there is a clipboard onCopy names a secret of    *)
(* which a value is in it.  Of a login that ended beside another, of the   *)
(* other sidebars and of a page with no clipboard it says nothing.         *)
THEOREM LateDoesNoHarm == Spec => []LateIsHarmless
<1>1. ClientInv => Client!TokenNotRevived
  <2> SUFFICES ASSUME ClientInv PROVE Client!TokenNotRevived
    OBVIOUS
  <2>1. ops \in Nat /\ written \in 0 .. ops /\ settled \in 0 .. written
    BY BoundsAssumption DEF ClientInv
  <2> QED
    BY <2>1 DEF ClientInv, Client!TokenNotRevived
<1>2. LibraryInv => LateIsHarmless
  BY <1>1 DEF LibraryInv, SidebarInv, CardInv, LateIsHarmless
<1> QED
  BY <1>2, LibraryInductive, PTL

(* use-mobile.ts, carousel.tsx: once the listener is there and no change   *)
(* of the width waits for it, the sidebar knows how wide the window is;    *)
(* and a carousel that follows its slides has its buttons enabled as they  *)
(* should be.  That they come to it is what the run checks.                *)
THEOREM EffectsOnceRun == Spec => [](Noticed /\ Follows)
<1>1. LibraryInv => Noticed /\ Follows
  BY DEF LibraryInv, SidebarInv, CarouselInv
<1> QED
  BY <1>1, LibraryInductive, PTL

(* page.tsx, chart.tsx, form.tsx, field.tsx: certificates and access       *)
(* requests agree with the audit trail and what a page shows has its       *)
(* event, from any seed data; a tooltip agrees with its point and with the *)
(* legend, for any configuration; what is read out with a control is the   *)
(* error it has; and an error's message is listed once by a FieldError     *)
(* that has no children.                                                   *)
THEOREM WhatIsShownIsTrue == Spec => []ShownIsTrue
<1>1. LibraryInv => ShownIsTrue
  BY PagesImplied, ChartImplied, FormImplied DEF LibraryInv, ShownIsTrue
<1> QED
  BY <1>1, LibraryInductive, PTL

=============================================================================
