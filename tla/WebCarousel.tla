----------------------------- MODULE WebCarousel -----------------------------
(***************************************************************************)
(* Carousel (apps/web/src/components/ui/carousel.tsx) over Embla, which is *)
(* external: it knows which slide is selected, and emits "select" when     *)
(* that changes and "reInit" when the slides do.  The component keeps two  *)
(* flags that enable its buttons; the arrow keys do not look at them.      *)
(* Embla exists, and may be dragged, before the component's effect         *)
(* subscribes to it.                                                       *)
(*                                                                         *)
(* Operators whose names contain _Broken are defects for mutation checks;  *)
(* no behaviour of this module uses them.                                  *)
(***************************************************************************)
EXTENDS Integers

CONSTANT MaxSlides   \* bound: how many slides there may be

VARIABLES
    api,             \* whether Embla exists
    slides,
    selected,
    subscribed,      \* the effect has run for this api
    canScrollPrev,
    canScrollNext

vars == <<api, slides, selected, subscribed, canScrollPrev, canScrollNext>>

-----------------------------------------------------------------------------
(* Embla's own canScrollPrev and canScrollNext, without loop.              *)
EmblaCanPrev(index) == index > 1

EmblaCanNext(index, n) == index < n

Init ==
    /\ api = FALSE
    /\ slides \in 1 .. MaxSlides
    /\ selected = 1
    /\ subscribed = FALSE
    /\ canScrollPrev = FALSE
    /\ canScrollNext = FALSE

CreateApi ==
    /\ ~api
    /\ api' = TRUE
    /\ UNCHANGED <<slides, selected, subscribed, canScrollPrev, canScrollNext>>

onSelect ==
    /\ canScrollPrev' = EmblaCanPrev(selected')
    /\ canScrollNext' = EmblaCanNext(selected', slides')

(* A "select" or "reInit" reaches onSelect once the effect has subscribed. *)
Emits == IF subscribed THEN onSelect ELSE UNCHANGED <<canScrollPrev, canScrollNext>>

Subscribe_BrokenNoSelect ==
    /\ api /\ ~subscribed
    /\ subscribed' = TRUE
    /\ UNCHANGED <<api, slides, selected, canScrollPrev, canScrollNext>>

(* The effect: onSelect once, then on every event.                         *)
Subscribe ==
    /\ api /\ ~subscribed
    /\ subscribed' = TRUE
    /\ UNCHANGED <<api, slides, selected>>
    /\ onSelect

ScrollTo(index) ==
    /\ api
    /\ selected' = index
    /\ UNCHANGED <<api, slides, subscribed>>
    /\ Emits

scrollPrev == EmblaCanPrev(selected) /\ ScrollTo(selected - 1)

scrollNext == EmblaCanNext(selected, slides) /\ ScrollTo(selected + 1)

handleKeyDown == scrollPrev \/ scrollNext

(* The buttons are enabled by the flags.                                   *)
CarouselPrevious == canScrollPrev /\ scrollPrev

CarouselNext == canScrollNext /\ scrollNext

Drag == \E index \in 1 .. slides : ScrollTo(index)

(* Slides come or go, and Embla selects one that is still there.           *)
ReInit ==
    /\ api
    /\ slides' \in 1 .. MaxSlides
    /\ selected' = IF selected > slides' THEN slides' ELSE selected
    /\ UNCHANGED <<api, subscribed>>
    /\ Emits

Next == CreateApi \/ Subscribe \/ handleKeyDown \/ CarouselPrevious \/ CarouselNext \/ Drag \/ ReInit

(* Embla is created and effects run.                                       *)
Fairness == WF_vars(CreateApi) /\ WF_vars(Subscribe)

Spec == Init /\ [][Next]_vars /\ Fairness

-----------------------------------------------------------------------------
(* The types of the state: the selected slide exists.                      *)
TypeOK ==
    /\ api \in BOOLEAN /\ subscribed \in BOOLEAN
    /\ slides \in 1 .. MaxSlides
    /\ selected \in 1 .. slides
    /\ canScrollPrev \in BOOLEAN /\ canScrollNext \in BOOLEAN

(* In the end every button is enabled exactly when there is a slide on its *)
(* side, whatever was scrolled, added or removed before the effect ran.    *)
ButtonsEnabled ==
    <>[](/\ canScrollPrev <=> selected > 1
         /\ canScrollNext <=> selected < slides)
=============================================================================
