----------------------------- MODULE MCWebLibrary -----------------------------
(* The data of a small instance of WebLibrary for TLC.                       *)
EXTENDS WebLibrary

MCSeedLeases ==
    <<[id |-> 1, provider |-> "PostgreSQL checkout-db", username |-> 2, secret |-> 3,
       status |-> "Active"]>>

MCSeedCertificates == <<[id |-> 1, commonName |-> "api.prod.acme.dev", status |-> "Active"]>>

MCSeedRequests ==
    <<[id |-> 1, requester |-> "Noah Williams", status |-> "Pending"],
      [id |-> 2, requester |-> "Noah Williams", status |-> "Pending"],
      [id |-> 3, requester |-> "Maya Chen", status |-> "Approved"]>>

Entry(label, color, theme) == [label |-> label, color |-> color, theme |-> theme]

Item(name, dataKey, type, row) ==
    [name |-> name, dataKey |-> dataKey, type |-> type, row |-> row]

Themed(label) == Entry(label, None, [light |-> "blue", dark |-> "sky"])

MCItems ==
    {Item("desktop", "desktop", "line", [browser |-> "chrome"]),
     Item("mobile", "mobile", "line", <<>>),
     Item("Visits", "desktop", "line", <<>>),
     Item(None, "mobile", "none", [browser |-> "chrome"])}

MCPointLabels == {"January", "desktop", None}

MCConfigs ==
    {[desktop |-> Themed("Desktop"), mobile |-> Entry("Mobile", "red", None),
      chrome |-> Entry("Chrome", None, None)],
     [desktop |-> Themed(None), mobile |-> Entry("Phone", "red", None)]}

MCNameKeys == {None, "browser"}

MCLabelKeys == {None, "browser", "name"}
=============================================================================
