-------------------------------- MODULE Field ---------------------------------
(***************************************************************************)
(* What the frontend knows of the text field it serves (im/frontend.rs     *)
(* Pending, on_done, delete_surrounding; im/content_type.rs).              *)
(*                                                                         *)
(* The compositor tells it in pieces that take effect together at a done;  *)
(* the engine is told on from there, in characters where Wayland counts    *)
(* bytes of UTF-8, and its answers go back to an application whose text    *)
(* may have changed meanwhile.  Application and compositor are external.   *)
(***************************************************************************)
EXTENDS Integers, Sequences, FiniteSets, Functions

CONSTANTS
  Chars,      \* characters, ...
  Wide,       \* ... those of three bytes among them, the others of one
  Fields,     \* fields there are: whether they tell their text, their content type
  MaxText,    \* bound: characters in a field
  Drains,     \* bound: the lists of effects an engine may have while it has a key
  MaxSteps    \* bound: what user, application and engine do

NoContent == [purpose |-> 0, hints |-> {}, told |-> FALSE]

\* What an engine does to the field and to what is shown in it.
EffectNames == {"commit", "delete", "forward", "hide", "require", "show", "preedit", "unheardOf"}

FieldBounds ==
  /\ Wide \subseteq Chars
  /\ \A f \in Fields : f.tells \in BOOLEAN /\ (f.content.told \/ f.content = NoContent)
  /\ \A d \in Drains :
       /\ d \in Seq(Range(d))
       /\ \A i \in DOMAIN d : /\ d[i].name \in EffectNames
                             /\ (d[i].name = "commit" => d[i].char \in Chars)
                             /\ (d[i].name = "delete" => d[i].offset \in Int /\ d[i].nchars \in Nat)
  /\ MaxText \in Nat /\ MaxSteps \in Nat

VARIABLES
  app,        \* the focused field: its text, its caret and its kind
  inbox,      \* what the compositor has sent and the frontend has not read
  next,       \* Pending
  now,        \* active, surrounding and content, as of the last done
  wants,      \* wants_around
  context,    \* what the IBus context was last told: text, caret, content
  requests,   \* what the frontend asked of the application, not done yet
  steps       \* counter for the bound

fvars == <<app, inbox, next, now, wants, context, requests, steps>>

None    == [text |-> <<>>, cursor |-> 0, anchor |-> 0, known |-> FALSE]
NoField == [on |-> FALSE, text |-> <<>>, caret |-> 0, field |-> [tells |-> FALSE, content |-> NoContent]]

-----------------------------------------------------------------------------
(* Offsets *)

Least(a, b) == IF a < b THEN a ELSE b
Most(a, b)  == IF a < b THEN b ELSE a

\* byte_offset: where the nth character begins, the end if there are not as many;
\* one byte for each before it, and two more for a wide one.
ByteOffset(text, n) ==
  LET before == 1..Least(n, Len(text))
  IN Cardinality(before) + 2 * Cardinality({i \in before : text[i] \in Wide})

\* char_offset, with floor_boundary: an offset inside a character is rounded down.
CharOffset(text, bytes) ==
  CHOOSE n \in 0..Len(text) :
    /\ ByteOffset(text, n) <= bytes
    /\ \A m \in 0..Len(text) : ByteOffset(text, m) <= bytes => m <= n

Clamp(n, high) == IF n < 0 THEN 0 ELSE IF n > high THEN high ELSE n

\* Mutant of DeleteRange: characters are taken for bytes.
DeleteRangeInCharacters(text, cursor, offset, nchars) ==
  LET caret == CharOffset(text, cursor)
      start == Clamp(caret + offset, Len(text))
      end   == Clamp(start + nchars, Len(text))
  IN [before |-> caret - Least(start, caret), after |-> Most(end, caret) - caret]

\* delete_range: IBus's range of characters as bytes before and after the caret,
\* extended to reach the caret.
DeleteRange(text, cursor, offset, nchars) ==
  LET caret == CharOffset(text, cursor)
      start == Clamp(caret + offset, Len(text))
      end   == Clamp(start + nchars, Len(text))
  IN [before |-> ByteOffset(text, caret) - ByteOffset(text, Least(start, caret)),
      after  |-> ByteOffset(text, Most(end, caret)) - ByteOffset(text, caret)]

-----------------------------------------------------------------------------
(* Content types *)

\* convert_purpose and convert_hints: the numbers differ.  A set of hints is the
\* set of their bits.
IbusPurpose == [p \in 0..13 |-> CASE p <= 9 -> p [] p = 13 -> 10 [] OTHER -> p + 1]
IbusHint    == <<2, 0, 6, 3, 4, 5, 12, 11, 13, 14>>

FromWayland(content) ==
  [purpose |-> IF content.purpose \in DOMAIN IbusPurpose THEN IbusPurpose[content.purpose] ELSE 0,
   hints   |-> {IbusHint[bit + 1] : bit \in content.hints \intersect 0..9}]

FreeForm == [purpose |-> 0, hints |-> {}]

\* secret: a password, a PIN, or hidden text.
Secret(content) == content.purpose \in {8, 9} \/ 12 \in content.hints

-----------------------------------------------------------------------------
Idle == [active |-> FALSE, surrounding |-> None, content |-> FreeForm]
Told == [text |-> <<>>, caret |-> 0, anchor |-> 0, content |-> FreeForm, focus |-> FALSE]

TypeOK ==
  /\ app.on \in BOOLEAN /\ app.caret \in 0..Len(app.text)
  /\ now.active \in BOOLEAN /\ next.active \in BOOLEAN /\ wants \in BOOLEAN
  /\ context.caret \in 0..Len(context.text)
  /\ now.surrounding.cursor <= ByteOffset(now.surrounding.text, Len(now.surrounding.text))

Init ==
  /\ app = NoField /\ inbox = <<>> /\ next = Idle /\ now = Idle
  /\ wants = FALSE /\ context = Told /\ requests = <<>> /\ steps = 0

Step == steps < MaxSteps /\ steps' = steps + 1

-----------------------------------------------------------------------------
(* Compositor and application (external) *)

Around(a) ==
  IF a.field.tells
  THEN <<[name |-> "SurroundingText", text |-> a.text,
          cursor |-> ByteOffset(a.text, a.caret), anchor |-> ByteOffset(a.text, a.caret)]>>
  ELSE <<>>

Kind(a) == IF a.field.content.told THEN <<[name |-> "ContentType", content |-> a.field.content]>> ELSE <<>>
Named(n) == <<[name |-> n]>>

\* A field takes the focus, or loses it; what is asked of it then goes nowhere.
Focus ==
  /\ ~app.on /\ Step
  /\ \E f \in Fields, c \in Chars :
       app' = [on |-> TRUE, text |-> <<c>>, caret |-> 1, field |-> f]
  /\ inbox' = inbox \o Named("Activate") \o Around(app') \o Kind(app') \o Named("Done")
  /\ requests' = <<>>
  /\ UNCHANGED <<next, now, wants, context>>

Blur ==
  /\ app.on /\ Step
  /\ app' = NoField
  /\ inbox' = inbox \o Named("Deactivate") \o Named("Done")
  /\ requests' = <<>>
  /\ UNCHANGED <<next, now, wants, context>>

\* The user clicks somewhere in the text.
MoveCaret ==
  /\ app.on /\ Step
  /\ \E n \in 0..Len(app.text) \ {app.caret} : app' = [app EXCEPT !.caret = n]
  /\ inbox' = inbox \o Around(app') \o Named("Done")
  /\ UNCHANGED <<next, now, wants, context, requests>>

Edited(a, text, caret) == [on |-> a.on, text |-> text, caret |-> caret, field |-> a.field]

Inserted(a, c) ==
  Edited(a, SubSeq(a.text, 1, a.caret) \o <<c>> \o SubSeq(a.text, a.caret + 1, Len(a.text)), a.caret + 1)

\* What is left of a field's text when the bytes on both sides of its caret have
\* gone; a request that reaches beyond the text or would cut a character in two
\* is refused.
Deleted(a, before, after) ==
  LET at   == ByteOffset(a.text, a.caret)
      left == {l \in 0..Len(a.text) : ByteOffset(a.text, l) = at - before}
      right == {r \in 0..Len(a.text) : ByteOffset(a.text, r) = at + after}
  IN {Edited(a, SubSeq(a.text, 1, l) \o SubSeq(a.text, r + 1, Len(a.text)), l) : l \in left, r \in right}

\* The application does the next thing asked of it, and tells its text anew.
Apply ==
  /\ requests # <<>> /\ app.on
  /\ LET r    == Head(requests)
         gone == Deleted(app, r.before, r.after)
     IN IF r.name = "commit" THEN app' = Inserted(app, r.char)
        ELSE IF gone = {} THEN app' = app ELSE app' \in gone
  /\ requests' = Tail(requests)
  /\ inbox' = inbox \o Around(app') \o Named("Done")
  /\ UNCHANGED <<next, now, wants, context, steps>>

-----------------------------------------------------------------------------
(* The frontend *)

\* push_surrounding, in characters, and push_content_type; nothing known is
\* pushed as an empty text.
PushAround(c, s) ==
  [text |-> s.text, caret |-> CharOffset(s.text, s.cursor), anchor |-> CharOffset(s.text, s.anchor),
   content |-> c.content, focus |-> c.focus]
Described(state) == [PushAround(context, state.surrounding) EXCEPT !.content = state.content]
FocusIn(state)   == [Described(state) EXCEPT !.focus = TRUE]

\* A field that stays active tells its content type if that is another one, unless
\* it has just become secret, which takes the focus instead; its text, secret or
\* not, it tells whenever an engine has asked once.
Stays ==
  LET told == IF wants THEN PushAround(context, next.surrounding) ELSE context
  IN CASE Secret(next.content) /\ ~Secret(now.content) -> [told EXCEPT !.focus = FALSE]
       [] next.content = now.content -> told
       [] OTHER -> [told EXCEPT !.content = next.content]

\* on_done, as far as it looks at what was pending: the context has the focus of
\* fields that are not secret.
OnDone ==
  /\ now' = next
  /\ LET enters == next.active /\ ~Secret(next.content) /\ (~now.active \/ Secret(now.content))
     IN context' =
          CASE enters -> FocusIn(next)
            [] ~next.active -> [context EXCEPT !.focus = FALSE]
            [] next.active /\ ~enters /\ now.active -> Stays
            [] OTHER -> context

\* Mutant of Activated: what is pending of the last field stays.
ActivatedStill == [next EXCEPT !.active = TRUE]

\* Activate forgets what the last field said.
Activated == [Idle EXCEPT !.active = TRUE]

\* The events between two dones only gather.
Read ==
  /\ inbox # <<>>
  /\ LET e == Head(inbox)
     IN \/ e.name = "Activate" /\ next' = Activated /\ UNCHANGED <<now, context>>
        \/ e.name = "Deactivate" /\ next' = [next EXCEPT !.active = FALSE] /\ UNCHANGED <<now, context>>
        \/ /\ e.name = "SurroundingText"
           /\ next' = [next EXCEPT !.surrounding =
                         [text |-> e.text, cursor |-> e.cursor, anchor |-> e.anchor, known |-> TRUE]]
           /\ UNCHANGED <<now, context>>
        \/ e.name = "ContentType" /\ next' = [next EXCEPT !.content = FromWayland(e.content)]
           /\ UNCHANGED <<now, context>>
        \/ e.name = "Done" /\ OnDone /\ UNCHANGED next
  /\ inbox' = Tail(inbox)
  /\ UNCHANGED <<app, wants, requests, steps>>

-----------------------------------------------------------------------------
(* The effects of a key *)

\* The daemon withholds what an engine does while it has a key and hands it over
\* as a list of tagged entries, a preedit as two of them.
Entry(tag, char, numbers) == [tag |-> tag, char |-> char, numbers |-> numbers]

Entries(e) ==
  CASE e.name = "commit"  -> <<Entry("c", e.char, <<>>)>>
    [] e.name = "delete"  -> <<Entry("d", "none", <<e.offset, e.nchars>>)>>
    [] e.name = "forward" -> <<Entry("f", "none", <<0, 0, 0>>)>>
    [] e.name = "hide"    -> <<Entry("h", "none", <<>>)>>
    [] e.name = "require" -> <<Entry("r", "none", <<>>)>>
    [] e.name = "show"    -> <<Entry("s", "none", <<>>)>>
    [] e.name = "preedit" -> <<Entry("m", e.char, <<>>), Entry("m", "none", <<1, 1, 0>>)>>
    [] OTHER              -> <<Entry("x", "none", <<>>)>>

\* The numbers that parse_pair and parse_triple must find.
Needs == [c |-> 0, d |-> 2, f |-> 3, h |-> 0, r |-> 0, s |-> 0]

Preedit == {"u", "m"}

Record(e) ==
  CASE e.tag = "c" -> [name |-> "commit", char |-> e.char]
    [] e.tag = "d" -> [name |-> "delete", offset |-> e.numbers[1], nchars |-> e.numbers[2]]
    [] e.tag = "r" -> [name |-> "require"]
    [] OTHER       -> [name |-> "shown"]

\* One more entry: a preedit waits for its position, and what cannot be read
\* spoils everything.
Decodes(d, e) ==
  CASE d.waits /\ e.tag \in Preedit /\ e.numbers # <<>> ->
         [d EXCEPT !.waits = FALSE, !.records = Append(@, Record(e))]
    [] ~d.waits /\ e.tag \in Preedit -> [d EXCEPT !.waits = TRUE]
    [] ~d.waits /\ e.tag \in DOMAIN Needs /\ Len(e.numbers) >= Needs[e.tag] ->
         [d EXCEPT !.records = Append(@, Record(e))]
    [] OTHER -> [d EXCEPT !.ok = FALSE]

Handed(d, e) ==
  LET q == Entries(e)
  IN IF Len(q) = 2 THEN Decodes(Decodes(d, q[1]), q[2]) ELSE Decodes(d, q[1])

\* decode_records, of all that the effects were handed over as.
Decoded(effects) ==
  LET run[n \in 0..Len(effects)] ==
        IF n = 0 THEN [ok |-> TRUE, waits |-> FALSE, records |-> <<>>] ELSE Handed(run[n - 1], effects[n])
  IN run[Len(effects)]

\* process_key: all of the drain, or a call that failed, and what was in it is gone.
Drained(effects) ==
  LET d == Decoded(effects)
  IN IF d.ok /\ ~d.waits THEN d.records ELSE <<>>

\* The application and the frontend have heard everything of each other.
Fresh(asked) == inbox = <<>> /\ asked = <<>>

\* delete_surrounding: by the text of the last done, whatever was committed since.
DeleteSurrounding(asked, r) ==
  LET d == DeleteRange(now.surrounding.text, now.surrounding.cursor, r.offset, r.nchars)
  IN IF ~now.surrounding.known \/ (d.before = 0 /\ d.after = 0) THEN asked
     ELSE Append(asked, [name |-> "delete", before |-> d.before, after |-> d.after,
                         seen |-> app, offset |-> r.offset, nchars |-> r.nchars, fresh |-> Fresh(asked)])

\* apply_records, one of them; the preedit is no text of the field's, and a
\* forwarded key goes by the virtual keyboard.
Applied(s, r) ==
  CASE r.name = "commit"  -> [s EXCEPT !.requests = Append(@, r)]
    [] r.name = "delete"  -> [s EXCEPT !.requests = DeleteSurrounding(@, r)]
    [] r.name = "require" -> [s EXCEPT !.wants = TRUE, !.context = PushAround(@, now.surrounding)]
    [] OTHER -> s

\* apply_records, all of them.
Effected(records) ==
  LET run[n \in 0..Len(records)] ==
        IF n = 0 THEN [requests |-> requests, wants |-> wants, context |-> context]
        ELSE Applied(run[n - 1], records[n])
  IN run[Len(records)]

\* The engine has a key, or acts of its own accord: on_upstream applies what it
\* signals as the drain's.  What becomes of the key itself is Keyboard's.
Key ==
  /\ context.focus /\ Step
  /\ \E effects \in Drains :
       LET s == Effected(Drained(effects))
           commits == {i \in DOMAIN s.requests : s.requests[i].name = "commit"}
       IN /\ Len(app.text) + Cardinality(commits) <= MaxText
          /\ requests' = s.requests /\ wants' = s.wants /\ context' = s.context
  /\ UNCHANGED <<app, inbox, next, now>>

Next == Focus \/ Blur \/ MoveCaret \/ Apply \/ Read \/ Key

Spec == Init /\ [][Next]_fvars

-----------------------------------------------------------------------------
(* Properties *)

\* When everything sent has been read, the frontend describes the field as it
\* is, and nothing of the field before: its text, its caret, its content type
\* and whether it is secret; and the engine that asked for the text has it too
\* (frontend.rs Pending, on_done; content_type.rs).
KnowsTheField ==
  (inbox = <<>> /\ app.on) =>
    /\ now.active
    /\ Secret(now.content) = (app.field.content.purpose \in {8, 9} \/ 6 \in app.field.content.hints)
    /\ IF app.field.tells
         THEN now.surrounding.text = app.text /\ CharOffset(app.text, now.surrounding.cursor) = app.caret
         ELSE now.surrounding = None
    /\ context.focus = ~Secret(now.content)
    /\ (context.focus /\ wants) => context.text = now.surrounding.text
    /\ context.focus => context.content = now.content

\* The characters of a text that an engine asked to delete around the caret.
Wanted(d) == {i \in DOMAIN d.seen.text : i > d.seen.caret + d.offset /\ i <= d.seen.caret + d.offset + d.nchars}

Goes(d) ==
  LET at == ByteOffset(d.seen.text, d.seen.caret)
  IN {i \in DOMAIN d.seen.text : /\ ByteOffset(d.seen.text, i) > at - d.before
                                 /\ ByteOffset(d.seen.text, i - 1) < at + d.after}

Deletions == {r \in Range(requests) : r.name = "delete" /\ r.fresh}

\* A deletion by an up-to-date text takes whole characters and at least those
\* the engine asked for, whatever their width (delete_range: "always gets at
\* least what it asked for").
DeletesWhatWasAsked ==
  \A d \in Deletions :
    /\ Wanted(d) \subseteq Goes(d)
    /\ LET at == ByteOffset(d.seen.text, d.seen.caret)
       IN \E l, r \in 0..Len(d.seen.text) :
            ByteOffset(d.seen.text, l) = at - d.before /\ ByteOffset(d.seen.text, r) = at + d.after
=============================================================================
