--------------------------- MODULE MCConversions ---------------------------
(* The conversions of one event: events of every channel that the tables     *)
(* tell apart with the ids around their categories, EventData of up to three *)
(* elements, and next to them every day until 2001 (three centuries that     *)
(* skip their leap day and one that does not) for the time of a record.      *)
EXTENDS Events, EvtxTime

CONSTANT Qualified   \* whether an EventID may carry the attribute Qualifiers

Node(tag, attrs, text, kids) ==
  [tag |-> tag, attrs |-> attrs, text |-> text, kids |-> kids, foreign |-> FALSE]
Leaf(tag, text) == Node(tag, <<>>, text, <<>>)
Data(name, text) == Node("Data", IF name = "" THEN <<>> ELSE <<<<"Name", name>>>>, text, <<>>)

SystemNodes(channel, id, provider, qualified) ==
  <<Node("System", <<>>, "", <<3, 4, 5, 6>>),
    Node("Provider", <<<<"Name", provider>>>>, "", <<>>),
    Node("EventID", IF qualified THEN <<<<"Qualifiers", "0">>>> ELSE <<>>, id, <<>>),
    Leaf("EventRecordID", "42"), Leaf("Channel", channel)>>

\* An event with its System, at the places 2 to 6, and one more child, at 7, of
\* which the last elements are the children.
Document(source, system, tag, under, foreign) ==
  [source |-> source,
   nodes |-> <<[Node("Event", <<>>, "", <<2, 7>>) EXCEPT !.foreign = foreign]>> \o system
               \o <<[Node(tag, <<>>, "", [k \in DOMAIN under |-> 7 + k])
                      EXCEPT !.foreign = (tag = "UserData")]>>
               \o under]

\* The same one element further down.
Wrapped(document) ==
  [document EXCEPT !.nodes =
     <<Node("Events", <<>>, "", <<2>>)>>
       \o [k \in DOMAIN @ |-> [@[k] EXCEPT !.kids = [i \in DOMAIN @ |-> @[i] + 1]]]]

IdsOf ==
  (Sysmon :> {"1", "12", "13", "14", "19"}) @@ (PowerShell :> {"4103", "4104", "4100"})
    @@ (PowerShellCore :> {"4103", "4104"}) @@ (ClassicPowerShell :> {"400", "600", "401"})
    @@ (WMI :> {"5857"}) @@ ("Security" :> {"4688", "1"}) @@ ("System" :> {"7045", "1"})
    @@ ("ForwardedEvents" :> {"1", "12"})

\* Sysmon types a registry event by what it does.
TypesOf(id) == CASE id = "12" -> {"CreateKey", "DeleteKey", "DeleteValue"}
                 [] id = "13" -> {"SetValue"} [] id = "14" -> {"RenameKey"} [] OTHER -> {"a"}

Providers == {"Microsoft-Windows-Sysmon", "Service Control Manager", "other"}

SourcesAndChannels == ({"live", "evtx"} \X DOMAIN IdsOf) \cup {<<"linux", LinuxSysmon>>}
Ids(channel) == IdsOf[IF channel = LinuxSysmon THEN Sysmon ELSE channel]

RoutedDocuments ==
  UNION {UNION {{Document(at[1], SystemNodes(at[2], id, provider, qualified),
                          "EventData", <<Data("EventType", type)>>, TRUE) :
                   provider \in Providers, qualified \in Qualified, type \in TypesOf(id)} :
                 id \in Ids(at[2])} :
         at \in SourcesAndChannels}

Names == {"", "A B", "AB", "Data0", "ProcessGuid"}
Texts == {"", "a", "042", "-7", "{ab-1}"}
Elements == {Data(name, text) : name \in Names, text \in Texts}

PlainSystem == SystemNodes(Sysmon, "1", "other", FALSE)

Filled ==
  {Document("live", PlainSystem, "EventData", data, FALSE) :
     data \in UNION {[1 .. n -> Elements] : n \in 0 .. 2}}
  \cup {Document("live", PlainSystem, "EventData", data, FALSE) :
     data \in [1 .. 3 -> {Data(name, text) : name \in {"", "AB"}, text \in {"a", "042"}}]}

\* UserData under a namespace of its own, elements without text, wrapped and
\* missing <Event> elements.
UserData == <<Leaf("Param", "-7"), Leaf("Empty", ""), Node("Op", <<<<"Guid", "{ab-1}">>>>, "a", <<>>)>>

\* The same below an element of another namespace, as providers write it, with a
\* operation and a number that belong to a third one.
Nested ==
  [Document("live", PlainSystem, "UserData",
            <<[Node("EventXML", <<>>, "", <<9, 10, 11, 12>>) EXCEPT !.foreign = TRUE]>> \o UserData
              \o <<[Leaf("Count", "042") EXCEPT !.foreign = TRUE]>>, FALSE)
     EXCEPT !.nodes[7].kids = <<8>>, !.nodes[11].foreign = TRUE]

Odd == {Nested, [Nested EXCEPT !.source = "evtx"],
        Document("live", PlainSystem, "UserData", UserData, TRUE),
        Wrapped(Document("evtx", PlainSystem, "UserData", UserData, TRUE)),
        [source |-> "evtx", nodes |-> <<Node("Events", <<>>, "", <<>>)>>]}

MCDocuments == RoutedDocuments \cup Filled \cup Odd

Rule(product, service, category) == [product |-> product, service |-> service, category |-> category]
MCSigmaRules ==
  {Rule("windows", "", category) : category \in Routed("windows")}
  \cup {Rule("linux", "", category) : category \in Routed("linux")}
  \cup {Rule("windows", service, "") : service \in DOMAIN ServiceChannels}
  \cup {Rule("linux", "sysmon", "")}
MCCustomChannels == ("ForwardedEvents" :> "sysmon")
MCPositionalKeys == <<"Data0", "Data1", "Data2">>

MCClocks == {<<0, 0>>, <<9, 30>>, <<23, 54>>}
MCZones == {<<1, 0, 0>>, <<1, 5, 30>>, <<-1, 3, 30>>, <<1, 14, 0>>, <<-1, 23, 54>>}

\* Neither depends on the other: events are read before the walk begins, which
\* goes on beside one that stays unread.
ConversionsInit == EventsInit /\ CalendarInit
ConversionsNext ==
  \/ EventsNext /\ daysSince1601 = 0 /\ UNCHANGED calendar
  \/ /\ Walk /\ xml = CHOOSE document \in Odd : TRUE
     /\ event = None /\ UNCHANGED eventsVars
ConversionsSpec == ConversionsInit /\ [][ConversionsNext]_<<eventsVars, calendar>>
=============================================================================
