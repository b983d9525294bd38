----------------------------- MODULE ChartTooltip -----------------------------
(***************************************************************************)
(* The chart's style, tooltip and legend                                   *)
(* (apps/web/src/components/ui/chart.tsx).  Recharts, which is external,   *)
(* renders the tooltip again for every point the pointer meets: it passes  *)
(* whether the tooltip is active, the items of the point and its label.    *)
(* The tooltip remembers its label from render to render.  The legend is   *)
(* told of a series by the same fields.  Formatters, which are the         *)
(* parent's own, icons and indicators are left out.                        *)
(*                                                                         *)
(* Operators whose names contain _Broken are defects for mutation checks;  *)
(* no behaviour of this module uses them.                                  *)
(***************************************************************************)
EXTENDS Integers, Sequences

CONSTANTS
    Items,         \* the items Recharts may pass: name, dataKey, type, color, row
    PointLabels,   \* the labels of points; None when it is not a string
    Configs,       \* what the parent may pass as config
    NameKeys,      \* what the parent may pass as nameKey, labelKey: names, or None
    LabelKeys,
    None

VARIABLES
    config,
    options,       \* the other props of the parent: they stay as they are
    hover,         \* what Recharts passed last
    memo           \* what useMemo remembers: what it depended on, and the label

chartVars == <<config, options, hover, memo>>

-----------------------------------------------------------------------------
(* A first value that is there, as ?? chooses it.                          *)
Else(a, b) == IF a # None THEN a ELSE b

Own(item, key) ==
    CASE key = "name" -> item.name
      [] key = "dataKey" -> item.dataKey
      [] OTHER -> None

FromRow(item, key) == IF key \in DOMAIN item.row THEN item.row[key] ELSE None

Entry(conf, key) == IF key \in DOMAIN conf THEN conf[key] ELSE None

(* The entry the item names under the key, itself or in its row of data,   *)
(* and otherwise the key's own entry.                                      *)
getPayloadConfigFromPayload(conf, item, key) ==
    Else(Entry(conf, Else(Own(item, key), Else(FromRow(item, key), key))), Entry(conf, key))

LabelIn(entry) == IF entry = None THEN None ELSE entry.label

(* What the label is when it is computed.                                  *)
LabelOf(conf, props) ==
    IF options.hideLabel \/ props.payload = <<>> THEN None
    ELSE LET item == props.payload[1]
             key == Else(options.labelKey, Else(item.dataKey, Else(item.name, "value")))
         IN  IF options.labelKey = None /\ props.label # None
             THEN Else(LabelIn(Entry(conf, props.label)), props.label)
             ELSE LabelIn(getPayloadConfigFromPayload(conf, item, key))

DependsOn_BrokenNoLabel(conf, props) == <<props.payload, conf>>

(* The dependencies of useMemo that change.                                *)
DependsOn(conf, props) == <<props.label, props.payload, conf>>

tooltipLabel(conf, props) ==
    IF memo.on = DependsOn(conf, props) THEN memo
    ELSE [on |-> DependsOn(conf, props), label |-> LabelOf(conf, props)]

Away == [active |-> FALSE, payload |-> <<>>, label |-> None]

Init ==
    /\ config \in Configs
    /\ options \in [nameKey : NameKeys, labelKey : LabelKeys, hideLabel : BOOLEAN,
                    indicator : {"dot", "line"}]
    /\ hover = Away
    /\ memo = [on |-> <<>>, label |-> None]

Render(conf, props) ==
    /\ config' = conf
    /\ hover' = props
    /\ memo' = tooltipLabel(conf, props)
    /\ UNCHANGED options

Hover(props) == Render(config, props)

(* Recharts keeps the last point's items when the pointer leaves.          *)
Leave == Render(config, [hover EXCEPT !.active = FALSE])

Reconfigure(conf) == Render(conf, hover)

Points ==
    {[active |-> TRUE, payload |-> payload, label |-> label] :
        payload \in {<<>>} \cup {<<a>> : a \in Items} \cup {<<a, b>> : a, b \in Items},
        label \in PointLabels}

Next ==
    \/ \E props \in Points : Hover(props)
    \/ Leave
    \/ \E conf \in Configs : Reconfigure(conf)

Spec == Init /\ [][Next]_chartVars

-----------------------------------------------------------------------------
Shown(payload) == SelectSeq(payload, LAMBDA item : item.type # "none")

(* The colours a theme's rule defines: one for every entry with a color,   *)
(* or with a theme.                                                        *)
ChartStyle(conf, theme) ==
    {<<key, IF conf[key].theme # None THEN conf[key].theme[theme] ELSE conf[key].color>> :
        key \in {k \in DOMAIN conf : conf[k].theme # None \/ conf[k].color # None}}

nestLabel == Len(hover.payload) = 1 /\ options.indicator # "dot"

TooltipKey(item) == Else(options.nameKey, Else(item.name, Else(item.dataKey, "value")))

LegendKey_BrokenNoNameKey(item) == Else(item.dataKey, "value")

LegendKey(item) == Else(options.nameKey, Else(item.dataKey, "value"))

TooltipRow(item) ==
    [label |-> IF nestLabel THEN memo.label ELSE None,
     name |-> Else(LabelIn(getPayloadConfigFromPayload(config, item, TooltipKey(item))),
                   item.name)]

(* What the tooltip shows, or None.                                        *)
ChartTooltipContent ==
    IF ~hover.active \/ hover.payload = <<>> THEN None
    ELSE [label |-> IF nestLabel THEN None ELSE memo.label,
          rows |-> [i \in DOMAIN Shown(hover.payload) |-> TooltipRow(Shown(hover.payload)[i])]]

(* The texts of the legend's entries.                                      *)
ChartLegendContent ==
    [i \in DOMAIN Shown(hover.payload) |->
        LET item == Shown(hover.payload)[i] IN
        LabelIn(getPayloadConfigFromPayload(config, item, LegendKey(item)))]

(* The tooltip tells of the point the pointer is at: its label is that     *)
(* point's, and none is shown twice.                                       *)
LabelCurrent ==
    ChartTooltipContent # None =>
        /\ memo.label = LabelOf(config, hover)
        /\ \A i \in DOMAIN ChartTooltipContent.rows :
               ChartTooltipContent.label # None => ChartTooltipContent.rows[i].label = None

(* A series named by its data key, as Recharts names it when it has no     *)
(* other name, has the legend's text in the tooltip.                       *)
LegendAgrees ==
    ChartTooltipContent # None =>
        \A i \in DOMAIN Shown(hover.payload) :
            LET item == Shown(hover.payload)[i] IN
            item.name = item.dataKey /\ ChartLegendContent[i] # None =>
                ChartTooltipContent.rows[i].name = ChartLegendContent[i]

(* Both themes define the same colours, and the colour of every series     *)
(* that is shown and has one in the config.                                *)
ColorsDefined ==
    /\ {entry[1] : entry \in ChartStyle(config, "light")} =
           {entry[1] : entry \in ChartStyle(config, "dark")}
    /\ \A i \in DOMAIN Shown(hover.payload) :
           LET key == Shown(hover.payload)[i].dataKey IN
           key \in DOMAIN config
               /\ (config[key].color # None \/ config[key].theme # None) =>
               key \in {entry[1] : entry \in ChartStyle(config, "light")}

TooltipTruthful == LabelCurrent /\ LegendAgrees /\ ColorsDefined
=============================================================================
