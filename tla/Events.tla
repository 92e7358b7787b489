------------------------------- MODULE Events -------------------------------
(***************************************************************************)
(* How the XML of a Windows or Sysmon event becomes the two JSON views of  *)
(* an Event (types.rs), and how the logsource fields put into the          *)
(* detection view meet the rules that the pipelines have rewritten and     *)
(* the channels resolved for those rules.  Five tables, in four files, have*)
(* to agree for one event to reach one rule.                               *)
(*                                                                         *)
(* Of each table the rows of the channels below are kept: the ones routed  *)
(* by category, by service alone, by provider, and by nothing.             *)
(***************************************************************************)
EXTENDS Integers, SequencesExt

CONSTANTS
  Documents,      \* the XML documents a collector may be given
  SigmaRules,     \* the rules as written: [product, service, category]
  CustomChannels, \* custom_channels.yaml: channel -> service
  PositionalKeys  \* "Data0", "Data1" and so on, for elements without a name

VARIABLES xml,    \* the document being read, with the source it comes from
          event   \* None, ParseError, or <<"event", [raw, json]>>

eventsVars == <<xml, event>>

None == <<"none">>
ParseError == <<"parse error">>

-----------------------------------------------------------------------------
(* serde_json::Value, tagged with its type.                                *)

Null == <<"null">>
Missing == <<"missing">>
Number(n) == <<"number", n>>
String(s) == <<"string", s>>
Object(fields) == <<"object", fields>>

\* Value::get; a value that is no object has no members.
Get(value, key) ==
  IF value[1] = "object" /\ key \in DOMAIN value[2] THEN value[2][key] ELSE Missing

\* Map::insert of each pair in turn: a later one takes the place of an earlier.
FromPairs(pairs) ==
  [key \in {pairs[k][1] : k \in DOMAIN pairs} |->
     pairs[Max({k \in DOMAIN pairs : pairs[k][1] = key})][2]]

\* Numbers are kept in their canonical spelling; u64 first, then i64.
Unsigned(text) ==
  CASE text = "042" -> "42"
    [] text \in {"42", "1", "12", "13", "14", "19", "400", "401", "600", "4103",
                 "4104", "4100", "4688", "5857", "7045"} -> text
    [] OTHER -> ""
Signed(text) == IF text = "-7" THEN "-7" ELSE ""

Guid(text) == CASE text \in {"{ab-1}", "ab-1"} -> "AB-1" [] OTHER -> ""

\* maybe_number
MaybeNumber(text) ==
  IF Unsigned(text) # "" THEN Number(Unsigned(text))
  ELSE IF Signed(text) # "" THEN Number(Signed(text))
  ELSE Missing

\* normalize_string, for the attributes of the raw view.
NormalizeString(text) ==
  IF MaybeNumber(text) # Missing THEN MaybeNumber(text)
  ELSE IF Guid(text) # "" THEN String(Guid(text))
  ELSE String(text)

\* normalize_eventdata_value; of GUID_TYPED_FIELDS one stands for all.
GuidTypedFields == {"ProcessGuid"}

NormalizeEventDataValue(field, text) ==
  IF MaybeNumber(text) # Missing THEN MaybeNumber(text)
  ELSE IF field \in GuidTypedFields /\ Guid(text) # "" THEN String(Guid(text))
  ELSE String(text)

-----------------------------------------------------------------------------
(* A document is the sequence of its elements in document order, as the     *)
(* parser keeps them.  An element is [tag, attrs: sequence of <<name, text>>,*)
(* text, kids: the places of its children]; its text is trimmed, "" when    *)
(* there is none.  `foreign` says that its namespace is not its parent's.   *)

Element ==
  [tag : STRING, attrs : Seq(STRING \X STRING), text : STRING, kids : Seq(Nat), foreign : BOOLEAN]

\* Children come after their parent, and no name has a '#'.
IsTree(nodes) ==
  /\ nodes \in Seq(Element)
  /\ \A k \in DOMAIN nodes :
       /\ nodes[k].tag \notin {"#attributes", "#text"}
       /\ \A i \in DOMAIN nodes[k].kids : nodes[k].kids[i] \in (k + 1) .. Len(nodes)

Attributes(node) == [k \in DOMAIN node.attrs |-> <<node.attrs[k][1], String(node.attrs[k][2])>>]

\* collect_element_attrs
RawAttributes(node) ==
  (IF node.foreign THEN <<<<"xmlns", String("urn")>>>> ELSE <<>>)
    \o [k \in DOMAIN node.attrs |-> <<node.attrs[k][1], NormalizeString(node.attrs[k][2])>>]

NameOf(data) == LET named == {k \in DOMAIN data.attrs : data.attrs[k][1] = "Name"}
                IN IF named = {} THEN "" ELSE data.attrs[CHOOSE k \in named : TRUE][2]

WithoutSpaces(name) == IF name = "A B" THEN "AB" ELSE name

\* The children of an element that are <Data>, by their place among them.
DataKids(nodes, node) ==
  LET data == {k \in DOMAIN node.kids : nodes[node.kids[k]].tag = "Data"}
  IN [k \in data |-> nodes[node.kids[k]]]

\* How many of the elements before the k-th have no name.
UnnamedBefore(data, k) == Cardinality({i \in DOMAIN data : i < k /\ NameOf(data[i]) = ""})

PositionalKey(n) == PositionalKeys[n + 1]

\* Mutant: the index of the unnamed elements does not advance.
NameOrFirstPlace(data, k) == IF NameOf(data[k]) = "" THEN PositionalKey(0) ELSE NameOf(data[k])

\* The name of an element, or the one of its place.
NameOrPlace(data, k) ==
  IF NameOf(data[k]) = "" THEN PositionalKey(UnnamedBefore(data, k)) ELSE NameOf(data[k])

\* handle_event_data
EventDataDetection(data) ==
  LET Key(k) == IF NameOf(data[k]) = "" THEN PositionalKey(UnnamedBefore(data, k))
                ELSE WithoutSpaces(NameOf(data[k]))
  IN Object(FromPairs([k \in DOMAIN data |-> <<Key(k), String(data[k].text)>>]))

\* Attributes go in front of the members of an element.
WithAttributes(attrs, pairs) ==
  IF attrs = <<>> THEN pairs
  ELSE [k \in {0} \cup DOMAIN pairs |->
          IF k = 0 THEN <<"#attributes", Object(FromPairs(attrs))>> ELSE pairs[k]]

\* handle_event_data_raw
EventDataRaw(node, data) ==
  LET Key(k) == NameOrPlace(data, k)
  IN Object(FromPairs(WithAttributes(RawAttributes(node),
       [k \in DOMAIN data |-> <<Key(k), NormalizeEventDataValue(Key(k), data[k].text)>>])))

\* The attributes of an element and its children.
MembersOf(nodes, node, attrs, value) ==
  FromPairs(WithAttributes(attrs,
    [k \in DOMAIN node.kids |-> <<nodes[node.kids[k]].tag, value[node.kids[k]]>>]))

\* The object of an element that has children or attributes.
Members(nodes, node, attrs, value) ==
  LET members == MembersOf(nodes, node, attrs, value)
  IN Object(IF node.text = "" THEN members
            ELSE [key \in {"#text"} \cup DOMAIN members |->
                    IF key \in DOMAIN members THEN members[key] ELSE String(node.text)])

\* node_to_value, of each element.
NodeToValue(nodes) ==
  LET value[k \in DOMAIN nodes] ==
        LET node == nodes[k]
            plain == node.kids = <<>> /\ node.attrs = <<>> /\ node.text # ""
        IN IF node.tag = "EventData" THEN EventDataDetection(DataKids(nodes, node))
           ELSE IF ~plain THEN Members(nodes, node, Attributes(node), value)
           ELSE IF Unsigned(node.text) # "" THEN Number(Unsigned(node.text))
           ELSE String(node.text)
  IN value

\* node_to_value_raw
NodeToValueRaw(nodes) ==
  LET value[k \in DOMAIN nodes] ==
        LET node == nodes[k]
            plain == node.kids = <<>> /\ RawAttributes(node) = <<>>
        IN IF node.tag = "EventData" THEN EventDataRaw(node, DataKids(nodes, node))
           ELSE IF ~plain THEN Members(nodes, node, RawAttributes(node), value)
           ELSE IF node.text = "" THEN Null
           ELSE IF MaybeNumber(node.text) # Missing THEN MaybeNumber(node.text)
           ELSE String(node.text)
  IN value

\* event_node_to_value
EventNodeToValue(nodes, node) ==
  Object([_source |-> String("winevt"),
          Event |-> Object(MembersOf(nodes, node, <<>>, NodeToValue(nodes)))])

\* event_node_to_value_raw: the attributes of <Event> itself are kept verbatim.
EventNodeToValueRaw(nodes, node) ==
  LET attrs == (IF node.foreign THEN <<<<"xmlns", String("urn")>>>> ELSE <<>>) \o Attributes(node)
  IN Object([Event |-> Object(MembersOf(nodes, node, attrs, NodeToValueRaw(nodes)))])

\* find_event_node: the first <Event> element, if there is one.
EventNodes(nodes) == {k \in DOMAIN nodes : nodes[k].tag = "Event"}
EventNode(nodes) == nodes[Min(EventNodes(nodes))]

-----------------------------------------------------------------------------
(* The logsource of an event.                                              *)

Sysmon == "Sysmon/Operational"
LinuxSysmon == "Linux-Sysmon/Operational"
PowerShell == "PowerShell/Operational"
PowerShellCore == "PowerShellCore/Operational"
ClassicPowerShell == "Windows PowerShell"
WMI == "WMI-Activity/Operational"

ChannelToService ==
  [channel \in {Sysmon, LinuxSysmon, PowerShell, PowerShellCore, ClassicPowerShell, WMI,
                "Security", "System"} |->
     CASE channel \in {Sysmon, LinuxSysmon} -> "sysmon"
       [] channel \in {PowerShell, PowerShellCore} -> "powershell"
       [] channel = ClassicPowerShell -> "powershell-classic"
       [] channel = WMI -> "wmi" [] channel = "Security" -> "security"
       [] channel = "System" -> "system"]

ProviderToChannel ==
  [provider \in {"Microsoft-Windows-Sysmon", "Service Control Manager"} |->
     IF provider = "Microsoft-Windows-Sysmon" THEN Sysmon ELSE "System"]

ChannelEventToCategory ==
  [key \in {<<Sysmon, "1">>, <<Sysmon, "12">>, <<Sysmon, "13">>, <<Sysmon, "14">>,
            <<Sysmon, "19">>, <<WMI, "5857">>, <<"Security", "4688">>,
            <<PowerShell, "4103">>, <<PowerShell, "4104">>, <<PowerShellCore, "4103">>,
            <<PowerShellCore, "4104">>, <<ClassicPowerShell, "400">>,
            <<ClassicPowerShell, "600">>} |->
     CASE key[2] \in {"1", "4688"} -> "process_creation"
       [] key[2] \in {"12", "13", "14"} -> "registry_event"
       [] key[2] \in {"19", "5857"} -> "wmi_event"
       [] key[2] = "4103" -> "ps_module" [] key[2] = "4104" -> "ps_script"
       [] key[2] = "400" -> "ps_classic_start"
       [] key[2] = "600" -> "ps_classic_provider_start"]

ChannelEventToSubcategory ==
  [key \in {Sysmon} \X {"12", "13", "14"} |->
     CASE key[2] = "12" -> "registry_add" [] key[2] = "13" -> "registry_set"
       [] key[2] = "14" -> "registry_rename"]

Lookup(table, key) == IF key \in DOMAIN table THEN table[key] ELSE ""

\* `second` where `first` gives nothing.
Else(first, second) == IF first # "" THEN first ELSE second

Text(value) == IF value[1] = "string" THEN value[2] ELSE ""
System(json) == Get(Get(json, "Event"), "System")

JsonChannel(json) == Else(Text(Get(System(json), "Channel")), Text(Get(json, "Channel")))
JsonProvider(json) == Text(Get(Get(Get(System(json), "Provider"), "#attributes"), "Name"))

\* json_event_id; 0 for what it cannot read, an object without "EventID" included.
IdOf(value) == CASE value[1] = "number" -> value[2]
                 [] value[1] = "string" /\ Unsigned(value[2]) # "" -> Unsigned(value[2])
                 [] OTHER -> "0"
JsonEventId(json) ==
  LET raw == Get(System(json), "EventID")
      inner == Get(raw, "EventID")
  IN CASE raw[1] # "object" -> IdOf(raw)
       [] raw[1] = "object" /\ inner[1] # "object" -> IdOf(inner)
       [] OTHER -> LET text == Get(inner, "#text") IN IF text[1] = "number" THEN text[2] ELSE "0"

EventType(json) == Text(Get(Get(Get(json, "Event"), "EventData"), "EventType"))

RegistrySubcategories == {"registry_add", "registry_set", "registry_rename", "registry_delete"}

\* get_category: Sysmon for Linux uses the rows of Sysmon.
GetCategory(channel, id) ==
  LET key == <<IF channel = LinuxSysmon THEN Sysmon ELSE channel, id>>
  IN Else(Lookup(ChannelEventToSubcategory, key), Lookup(ChannelEventToCategory, key))

\* category_exclusive_sentinel
Sentinel(channel) ==
  IF channel \in {PowerShell, PowerShellCore, ClassicPowerShell} THEN "ps_other" ELSE ""

\* The first half of resolve_logsource_fields.
ServiceOf(json, given) ==
  Else(given, Else(Lookup(ChannelToService, JsonChannel(json)),
                   Lookup(ChannelToService, Lookup(ProviderToChannel, JsonProvider(json)))))

\* Mutant: the subcategories of the registry are injected as they are.
CategoryOfSubcategory(json) ==
  LET found == GetCategory(JsonChannel(json), JsonEventId(json))
      refined == IF found = "registry_add" /\ EventType(json) \in {"DeleteKey", "DeleteValue"}
                 THEN "registry_delete" ELSE found
  IN Else(refined, Sentinel(JsonChannel(json)))

\* Its second half: a registry subcategory is left unset, so that the rules of
\* the subcategory and those of registry_event both stay reachable.
CategoryOf(json) ==
  LET found == GetCategory(JsonChannel(json), JsonEventId(json))
      refined == IF found = "registry_add" /\ EventType(json) \in {"DeleteKey", "DeleteValue"}
                 THEN "registry_delete" ELSE found
      category == Else(refined, Sentinel(JsonChannel(json)))
  IN IF category \in RegistrySubcategories THEN "" ELSE category

\* eventdata_to_string: the texts of EventData, joined; here their set.
EventDataTexts(json) ==
  LET data == Get(Get(json, "Event"), "EventData")
  IN IF data[1] = "object" THEN {data[2][key] : key \in DOMAIN data[2]} ELSE {}

\* with_injected_logsource
WithInjectedLogsource(json, product, service) ==
  LET injected == [product |-> String(product), service |-> String(ServiceOf(json, service)),
                   category |-> String(CategoryOf(json)), Data |-> <<"joined", EventDataTexts(json)>>]
      flat == CategoryOf(json) \in {"ps_classic_start", "ps_classic_script"}
                /\ EventDataTexts(json) # {}
      found == {"product"} \cup (IF ServiceOf(json, service) # "" THEN {"service"} ELSE {})
                 \cup (IF CategoryOf(json) # "" THEN {"category"} ELSE {})
                 \cup (IF flat THEN {"Data"} ELSE {})
  IN Object([name \in found \cup DOMAIN json[2] |->
               IF name \in found THEN injected[name] ELSE json[2][name]])

-----------------------------------------------------------------------------
(* The collectors.                                                         *)

\* strip_record_id
StripRecordId(json) ==
  LET inner == json[2]["Event"][2]
      system == inner["System"][2]
      stripped == [key \in DOMAIN system \ {"EventRecordID"} |-> system[key]]
  IN IF Get(System(json), "EventRecordID") = Missing THEN json
     ELSE Object([json[2] EXCEPT !["Event"] = Object([inner EXCEPT !["System"] = Object(stripped)])])

EventsInit == xml \in Documents /\ event = None

ReadWith(product, Finish(_)) ==
  /\ event = None
  /\ LET node == EventNode(xml.nodes)
         json == WithInjectedLogsource(EventNodeToValue(xml.nodes, node), product, "")
     IN event' = IF EventNodes(xml.nodes) = {} THEN ParseError
                 ELSE <<"event", [raw |-> EventNodeToValueRaw(xml.nodes, node), json |-> Finish(json)]>>
  /\ UNCHANGED xml

\* Event::from_xml_injected, as the live Windows collector calls it.
FromEventLog == xml.source = "live" /\ ReadWith("windows", LAMBDA json : json)

\* The EVTX reader: the record is not in the live log, its id is taken out.
FromEvtxFile == xml.source = "evtx" /\ ReadWith("windows", StripRecordId)

\* sysmon_parse::record_to_event.
FromSysmonLine == xml.source = "linux" /\ ReadWith("linux", LAMBDA json : json)

EventsNext == FromEventLog \/ FromEvtxFile \/ FromSysmonLine

EventsSpec == EventsInit /\ [][EventsNext]_eventsVars

-----------------------------------------------------------------------------
(* The rules: the pipelines rewrite a logsource, add a condition on the     *)
(* event id and perhaps the type, and rsigma prunes by exact match of the   *)
(* fields that rule and event both have.                                    *)

Route(service, ids, type) == [service |-> service, ids |-> ids, type |-> type]

SysmonRoutes ==
  [category \in {"process_creation", "registry_event", "registry_add", "registry_delete",
                 "registry_set", "registry_rename", "wmi_event"} |->
     CASE category = "process_creation" -> Route("sysmon", {"1"}, "")
       [] category = "registry_event" -> Route("sysmon", {"12", "13", "14"}, "")
       [] category = "registry_add" -> Route("sysmon", {"12"}, "CreateKey")
       [] category = "registry_delete" -> Route("sysmon", {"12"}, "")
       [] category = "registry_set" -> Route("sysmon", {"13"}, "SetValue")
       [] category = "registry_rename" -> Route("sysmon", {"14"}, "RenameKey")
       [] category = "wmi_event" -> Route("sysmon", {"19", "20", "21"}, "")]

PowerShellRoutes ==
  [category \in {"ps_module", "ps_script", "ps_classic_start", "ps_classic_provider_start"} |->
     CASE category = "ps_module" -> Route("powershell", {"4103"}, "")
       [] category = "ps_script" -> Route("powershell", {"4104"}, "")
       [] category = "ps_classic_start" -> Route("powershell-classic", {"400"}, "")
       [] category = "ps_classic_provider_start" -> Route("powershell-classic", {"600"}, "")]

\* The categories that the pipelines of a product rewrite.
Routed(product) ==
  DOMAIN SysmonRoutes \cup (IF product = "windows" THEN DOMAIN PowerShellRoutes ELSE {})
Routes(category) ==
  IF category \in DOMAIN SysmonRoutes THEN SysmonRoutes[category] ELSE PowerShellRoutes[category]

\* What the pipelines make of a rule.
Piped(rule) ==
  LET route == IF rule.category \in Routed(rule.product) THEN Routes(rule.category)
               ELSE Route(rule.service, {}, "")
  IN [product |-> rule.product, category |-> rule.category, service |-> route.service,
      ids |-> route.ids, type |-> route.type]

ServiceChannels ==
  [service \in {"sysmon", "powershell", "powershell-classic", "wmi", "security", "system"} |->
     CASE service = "sysmon" -> {Sysmon}
       [] service = "powershell" -> {PowerShell, PowerShellCore}
       [] service = "powershell-classic" -> {ClassicPowerShell} [] service = "wmi" -> {WMI}
       [] service = "security" -> {"Security"} [] service = "system" -> {"System"}]

CategoryChannels ==
  [category \in DOMAIN PowerShellRoutes |->
     IF category \in {"ps_module", "ps_script"} THEN {PowerShell, PowerShellCore}
     ELSE {ClassicPowerShell}]

\* resolve_channels, for one rule.
ChannelsOf(rule) ==
  LET piped == Piped(rule)
      Targets(table, key) == IF key \in DOMAIN table THEN table[key] ELSE {}
  IN CASE piped.product # "windows" -> {}
       [] piped.product = "windows" /\ piped.service # "" ->
            Targets(ServiceChannels, piped.service)
              \cup {channel \in DOMAIN CustomChannels : CustomChannels[channel] = piped.service}
       [] OTHER -> Targets(CategoryChannels, piped.category)

\* rsigma: a field that one of the two lacks does not prune.
Compatible(rule, json) ==
  \A field \in {"product", "service", "category"} :
    Piped(rule)[field] # "" /\ Get(json, field) # Missing =>
      Get(json, field) = String(Piped(rule)[field])

\* The conditions that the pipeline added: an EventID must be a plain value.
ConditionsHold(rule, json) ==
  LET piped == Piped(rule)
  IN /\ piped.ids # {} => IdOf(Get(System(json), "EventID")) \in piped.ids
     /\ piped.type # "" => EventType(json) = piped.type

Reaches(rule, json) == Compatible(rule, json) /\ ConditionsHold(rule, json)

-----------------------------------------------------------------------------
(* What is assumed of the inputs.                                          *)

\* The names of places have no space, and no field is named like the attributes.
ASSUME PositionalKeysAssumption ==
  /\ PositionalKeys \in Seq(STRING)
  /\ \A n \in DOMAIN PositionalKeys : PositionalKeys[n] \notin {"", "A B", "#attributes"}

\* There is a name for the place of every <Data> without one.
NamesAreFields(data) ==
  /\ Cardinality({k \in DOMAIN data : NameOf(data[k]) = ""}) <= Len(PositionalKeys)
  /\ \A k \in DOMAIN data : NameOf(data[k]) # "#attributes"

OnlyKid(nodes, node, tag) ==
  \E i \in DOMAIN node.kids : \A k \in DOMAIN node.kids :
    nodes[node.kids[k]].tag = tag <=> k = i

\* The only child of an element with this tag.
Kid(nodes, node, tag) ==
  nodes[node.kids[CHOOSE k \in DOMAIN node.kids : nodes[node.kids[k]].tag = tag]]

\* What Windows and Sysmon put in the System of an event.
HasSystem(nodes, event_node) ==
  /\ OnlyKid(nodes, event_node, "System")
  /\ LET system == Kid(nodes, event_node, "System")
     IN /\ \A tag \in {"Provider", "EventID", "Channel"} : OnlyKid(nodes, system, tag)
        /\ Kid(nodes, system, "EventID").kids = <<>>
        /\ Kid(nodes, system, "Channel").kids = <<>>
        /\ Kid(nodes, system, "Channel").attrs = <<>>
        /\ LET attrs == Kid(nodes, system, "Provider").attrs
           IN \A i, k \in DOMAIN attrs : attrs[i][1] = attrs[k][1] => i = k

\* Sysmon types a registry event by what it does.
IsTyped(nodes, event_node) ==
  LET system == Kid(nodes, event_node, "System")
      id == Kid(nodes, system, "EventID").text
      type == EventType(EventNodeToValue(nodes, event_node))
  IN (\/ Kid(nodes, system, "Channel").text \in {Sysmon, LinuxSysmon}
      \/ NameOf(Kid(nodes, system, "Provider")) = "Microsoft-Windows-Sysmon") =>
       /\ id = "13" => type = "SetValue"
       /\ id = "14" => type = "RenameKey"

ASSUME DocumentsAssumption ==
  \A document \in Documents :
    LET nodes == document.nodes
    IN /\ document.source \in {"live", "evtx", "linux"} /\ IsTree(nodes)
       /\ \A k \in DOMAIN nodes : NamesAreFields(DataKids(nodes, nodes[k]))
       /\ EventNodes(nodes) # {} =>
            HasSystem(nodes, EventNode(nodes)) /\ IsTyped(nodes, EventNode(nodes))

\* A rule names a category that the pipelines route, or a service.
ASSUME RulesAssumption ==
  \A rule \in SigmaRules :
    /\ rule \in [product : {"windows", "linux"}, service : STRING, category : STRING]
    /\ IF rule.category # "" THEN rule.category \in Routed(rule.product)
       ELSE rule.service \in IF rule.product = "linux" THEN {"sysmon"} ELSE DOMAIN ServiceChannels

\* Custom channels are none of the known ones, and no numbers.
ASSUME CustomChannelsAssumption ==
  \A channel \in DOMAIN CustomChannels :
    channel \notin DOMAIN ChannelToService /\ channel # "" /\ MaybeNumber(channel) = Missing

-----------------------------------------------------------------------------
(* Properties.                                                             *)

SystemOf == Kid(xml.nodes, EventNode(xml.nodes), "System")
Field(tag) == Kid(xml.nodes, SystemOf, tag).text

IsEvent == event[1] = "event"

Provider == NameOf(Kid(xml.nodes, SystemOf, "Provider"))

\* The channel an event was first logged to: Sysmon for Linux logs what Sysmon
\* logs, and a forwarded event of the Sysmon provider is one of its own.
HomeChannel ==
  CASE Field("Channel") = LinuxSysmon -> Sysmon
    [] Field("Channel") \in DOMAIN CustomChannels /\ Provider = "Microsoft-Windows-Sysmon" -> Sysmon
    [] OTHER -> Field("Channel")

\* The categories that Sigma gives an event by its channel and its id; a
\* registry event has the parent category and the one of its operation.
Categories ==
  LET channel == HomeChannel
      type == EventType(event[2].json)
  IN CASE channel = Sysmon /\ Field("EventID") = "1" -> {"process_creation"}
       [] channel = Sysmon /\ Field("EventID") = "12" ->
            {"registry_event", IF type = "CreateKey" THEN "registry_add" ELSE "registry_delete"}
       [] channel = Sysmon /\ Field("EventID") = "13" -> {"registry_event", "registry_set"}
       [] channel = Sysmon /\ Field("EventID") = "14" -> {"registry_event", "registry_rename"}
       [] channel = Sysmon /\ Field("EventID") = "19" -> {"wmi_event"}
       [] channel \in {PowerShell, PowerShellCore} /\ Field("EventID") = "4103" -> {"ps_module"}
       [] channel \in {PowerShell, PowerShellCore} /\ Field("EventID") = "4104" -> {"ps_script"}
       [] channel = ClassicPowerShell /\ Field("EventID") = "400" -> {"ps_classic_start"}
       [] channel = ClassicPowerShell /\ Field("EventID") = "600" -> {"ps_classic_provider_start"}
       [] OTHER -> {}

\* The channel of the event is one of those collected for the rule.
CollectedFor(rule) ==
  CASE rule.product = "windows" -> xml.source # "linux" /\ Field("Channel") \in ChannelsOf(rule)
    [] OTHER -> xml.source = "linux" /\ Field("Channel") = LinuxSysmon

\* The event is one that Sigma would show the rule.
Belongs(rule) == IF rule.category # "" THEN rule.category \in Categories
                 ELSE HomeChannel \in ServiceChannels[rule.service]

\* Every event collected for a rule is evaluated by it when Sigma puts the
\* event in the rule's category, and by no rule of another category: the
\* tables of channels, services, categories, providers and ids and the
\* rewriting of the pipelines agree.  A registry_delete rule also sees the
\* creation of keys (1_win_logsource.yml leaves the type to the rule), and an
\* event from a custom channel has no category to prune by.
RulesSeeTheirEvents ==
  IsEvent => \A rule \in SigmaRules : CollectedFor(rule) =>
    /\ Belongs(rule) => Reaches(rule, event[2].json)
    /\ Reaches(rule, event[2].json) =>
         \/ Belongs(rule)
         \/ rule.category = "registry_delete" /\ "registry_add" \in Categories
         \/ Field("Channel") \in DOMAIN CustomChannels

\* "Winevt XML encodes `<EventID Qualifiers="..">400</EventID>` as an object with
\* a `#text` member" (types.rs:314-316): the id of such an event is read too, and
\* its rules see it.
QualifiedIdsAreRead ==
  IsEvent => \A rule \in SigmaRules :
    CollectedFor(rule) /\ Belongs(rule) => Reaches(rule, event[2].json)

\* The number that a value is, or spells.
NumberOf(value) == IF value[1] = "string" THEN MaybeNumber(value[2]) ELSE value

\* A value of the raw view says what one of the detection view says: it is the
\* same one, the same number, or the GUID of it in its canonical spelling.
Says(raw, json) ==
  \/ raw = json
  \/ NumberOf(json)[1] = "number" /\ NumberOf(raw) = NumberOf(json)
  \/ json[1] = "string" /\ Guid(json[2]) # "" /\ raw = String(Guid(json[2]))

Keys(value) == IF value[1] = "object" THEN DOMAIN value[2] ELSE {}

\* The text of a value, which an object has beside its members.
TextOf(value) == IF value[1] = "object" THEN Get(value, "#text") ELSE value

\* A member of the detection view, and what the raw view has in its place.
Inside(parts) ==
  UNION {{[name |-> key, json |-> part.json[2][key], raw |-> Get(part.raw, key)] :
            key \in Keys(part.json) \ {"#text"}} :
         part \in {p \in parts : p.name # "EventData"}}

\* The event, its parts, theirs, and so on down to the attributes of the fields
\* of what is in its UserData.
Parts ==
  LET whole == {[name |-> "Event", json |-> Get(event[2].json, "Event"),
                 raw |-> Get(event[2].raw, "Event")]}
      sections == Inside(whole)
      members == Inside(sections)
      fields == Inside(members)
      attributes == Inside(fields)
  IN UNION {whole, sections, members, fields, attributes, Inside(attributes)}

\* A part is in the raw view: the values of EventData under a name that the name
\* in the detection view comes from, others under their own, and its own text.
IsWritten(part) ==
  /\ part.raw # Missing
  /\ IF part.name = "EventData"
     THEN \A key \in Keys(part.json) : \E name \in Keys(part.raw) \ {"#attributes"} :
            WithoutSpaces(name) = key /\ Says(part.raw[2][name], part.json[2][key])
     ELSE TextOf(part.json) # Missing => Says(TextOf(part.raw), TextOf(part.json))

\* What a rule can match in the detection view is in the regression data: each
\* EventData value stands in the raw view under a name that the rule's field
\* name comes from, and every other element and attribute of the event, the
\* System and the UserData with all they hold, stands in its own place; numbers
\* and GUIDs are normalised there, and no value is another or gone.
WhatMatchedIsRecorded == IsEvent => \A part \in Parts : IsWritten(part)
=============================================================================
