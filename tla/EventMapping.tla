---------------------------- MODULE EventMapping ----------------------------
(* How a row of SQL values and an event of the service are turned into one   *)
(* another (event_mapping.hpp).                                              *)
(*                                                                           *)
(* An event is a function from the keys it has to values; erasing a key      *)
(* takes it out of the domain.  A time is a number of units on a clock       *)
(* without a zone, a day is Day units, and midnight is a multiple of Day.    *)
(* The node under "start" and "end" is a date or a dateTime: what a wall     *)
(* clock shows, and how far that clock is ahead of UTC.                      *)
EXTENDS Integers

CONSTANTS
    Day,            \* units in a day
    Null,           \* SQL NULL
    Malformed,      \* a text that is not JSON
    Empty           \* the empty text

ASSUME DayAssumption == Day \in Nat \ {0}

\* NULL is no text.
ASSUME NullAssumption == Null \notin {Malformed, Empty}

Form == {"date", "dateTime"}
Node(form, wall, ahead) == [form |-> form, wall |-> wall, ahead |-> ahead]
Nodes == [form : Form, wall : Int, ahead : Int]

\* event[key] = val and event.erase(key).
With(event, key, val) == [k \in DOMAIN event \cup {key} |-> IF k = key THEN val ELSE event[k]]
Without(event, key) == [k \in DOMAIN event \ {key} |-> event[k]]
Get(event, key) == IF key \in DOMAIN event THEN event[key] ELSE Null

-----------------------------------------------------------------------------
\* Writing.

Midnight(t) == t - (t % Day)

\* FormatDate and FormatRfc3339 write the value as UTC has it.
TimeNode(val, all_day) ==
    IF all_day THEN Node("date", Midnight(val), 0) ELSE Node("dateTime", val, 0)

ExistingAllDay(event) == "start" \in DOMAIN event /\ event["start"].form = "date"

\* The date is the first ten characters of a dateTime: the wall clock's.  A date
\* becomes midnight UTC.
ReencodeTimeNode(event, key, all_day) ==
    IF key \notin DOMAIN event THEN event
    ELSE With(event, key,
              CASE all_day -> Node("date", Midnight(event[key].wall), 0)
                [] ~all_day /\ event[key].form = "date" -> Node("dateTime", event[key].wall, 0)
                [] ~all_day /\ event[key].form = "dateTime" -> event[key])

\* What is not JSON erases what there was.
Bug_SetJsonPassthrough(event, key, val) ==
    IF val \in {Empty, Malformed} THEN Without(event, key) ELSE With(event, key, val)

\* Best effort: what is not JSON changes nothing.
SetJsonPassthrough(event, key, val) ==
    IF val \in {Empty, Malformed} THEN event ELSE With(event, key, val)

WritableStringKeys ==
    [summary |-> "summary", description |-> "description", location |-> "location",
     status |-> "status", color_id |-> "colorId", transparency |-> "transparency",
     visibility |-> "visibility", event_type |-> "eventType"]
WritableBoolKeys ==
    [anyone_can_add_self |-> "anyoneCanAddSelf", guests_can_invite_others |-> "guestsCanInviteOthers",
     guests_can_modify |-> "guestsCanModify", guests_can_see_other_guests |-> "guestsCanSeeOtherGuests"]
WritableJsonKeys ==
    [attendees |-> "attendees", recurrence |-> "recurrence", reminders |-> "reminders",
     conference_data |-> "conferenceData", extended_properties |-> "extendedProperties",
     source |-> "source", attachments |-> "attachments",
     working_location_properties |-> "workingLocationProperties"]

\* Columns whose value is put under a key of their own.
StringColumns == DOMAIN WritableStringKeys
BoolColumns == DOMAIN WritableBoolKeys
JsonColumns == DOMAIN WritableJsonKeys
TimeColumns == {"start", "end"}
WritableKey(name) ==
    CASE name \in StringColumns -> WritableStringKeys[name]
      [] name \in BoolColumns -> WritableBoolKeys[name]
      [] name \in JsonColumns -> WritableJsonKeys[name]
      [] name \in TimeColumns -> name

\* What ApplyColumn returns true for.
Writable(name, update) ==
    \/ name \in StringColumns \cup BoolColumns \cup JsonColumns \cup TimeColumns \cup {"all_day"}
    \/ name = "event_id" /\ ~update

\* all_day re-encodes the start alone.
Bug_ApplyAllDay(event, all_day) == ReencodeTimeNode(event, "start", all_day)

ApplyAllDay(event, all_day) ==
    ReencodeTimeNode(ReencodeTimeNode(event, "start", all_day), "end", all_day)

\* One column's value.  NULL erases the key in an UPDATE and is passed over in an
\* INSERT; a column that is not writable changes nothing.
ApplyColumn(event, name, val, all_day, update) ==
    CASE ~Writable(name, update) -> event
      [] name = "event_id" /\ ~update -> IF val = Null THEN event ELSE With(event, "id", val)
      [] name = "all_day" -> IF update THEN ApplyAllDay(event, all_day) ELSE event
      [] name \in StringColumns \cup BoolColumns \cup JsonColumns \cup TimeColumns /\ val = Null ->
            IF update THEN Without(event, WritableKey(name)) ELSE event
      [] name \in StringColumns \cup BoolColumns /\ val # Null -> With(event, WritableKey(name), val)
      [] name \in JsonColumns /\ val # Null -> SetJsonPassthrough(event, WritableKey(name), val)
      [] name \in TimeColumns /\ val # Null -> With(event, name, TimeNode(val, all_day))

-----------------------------------------------------------------------------
\* Reading.

\* A date is midnight UTC.
ParseEventTime(event, which) ==
    IF which \in DOMAIN event THEN event[which].wall - event[which].ahead ELSE Null

StringKeys ==
    [event_id |-> "id", summary |-> "summary", description |-> "description", location |-> "location",
     status |-> "status", html_link |-> "htmlLink", created |-> "created", updated |-> "updated",
     color_id |-> "colorId", transparency |-> "transparency", visibility |-> "visibility",
     event_type |-> "eventType", recurring_event_id |-> "recurringEventId", ical_uid |-> "iCalUID",
     etag |-> "etag", kind |-> "kind", hangout_link |-> "hangoutLink"]
RawKeys ==
    [attendees |-> "attendees", recurrence |-> "recurrence", reminders |-> "reminders",
     conference_data |-> "conferenceData", creator |-> "creator", organizer |-> "organizer",
     extended_properties |-> "extendedProperties", source |-> "source", attachments |-> "attachments",
     working_location_properties |-> "workingLocationProperties",
     out_of_office_properties |-> "outOfOfficeProperties", focus_time_properties |-> "focusTimeProperties"]
BoolKeys ==
    [end_time_unspecified |-> "endTimeUnspecified", attendees_omitted |-> "attendeesOmitted",
     anyone_can_add_self |-> "anyoneCanAddSelf", guests_can_invite_others |-> "guestsCanInviteOthers",
     guests_can_modify |-> "guestsCanModify", guests_can_see_other_guests |-> "guestsCanSeeOtherGuests",
     private_copy |-> "privateCopy", locked |-> "locked"]

ExtractField(event, field) ==
    CASE field \in DOMAIN StringKeys -> Get(event, StringKeys[field])
      [] field \in DOMAIN RawKeys -> Get(event, RawKeys[field])
      [] field \in DOMAIN BoolKeys -> Get(event, BoolKeys[field])
      [] field \in TimeColumns -> ParseEventTime(event, field)
      [] field = "original_start_time" -> ParseEventTime(event, "originalStartTime")
      [] field = "all_day" -> ExistingAllDay(event)
      [] field = "sequence" -> Get(event, "sequence")

\* The columns the extension declares.
Schema ==
    DOMAIN StringKeys \cup DOMAIN RawKeys \cup DOMAIN BoolKeys \cup TimeColumns
      \cup {"original_start_time", "all_day", "sequence", "calendar_id"}

\* calendar_id is no field of the event.
EventToRow(event, names, calendar_id) ==
    [n \in names |-> IF n = "calendar_id" THEN calendar_id ELSE ExtractField(event, n)]
=============================================================================
