--------------------------- MODULE CallResultsProofs ---------------------------
(***************************************************************************)
(* What callers are given: InOrder, and the step simulation that shows     *)
(* Connection to implement CallResults.  Both speak of the story of a      *)
(* call, what its callbacks were given and then what is on its way to      *)
(* them: each step leaves it as it is, adds an answer of the hub at its    *)
(* end, or leaves out a part of it.                                        *)
(***************************************************************************)
EXTENDS ConnectionProofs, SequenceFacts

Story(c) == seen[c] \o Only(Pending, About(c))

HasEnd(messages) == \E i \in DOMAIN messages : IsEnd(messages[i])

\* Items grow, and none comes after an end; all of it is what the hub sent.
Sound(story, sent) ==
  /\ \A i, j \in DOMAIN story :
       i < j /\ story[j].type = "item" =>
         story[i].type = "item" /\ story[i].item < story[j].item
  /\ \A i \in DOMAIN story :
       /\ IsEnd(story[i]) => HasEnd(sent)
       /\ story[i].type = "item" => story[i].item \in 1..Len(sent)

\* An answer is about a call, an item or a cancellation about a stream.
Addressed(messages) ==
  \A i \in DOMAIN messages :
    IF messages[i].id \in Calls
    THEN /\ messages[i].type \in Ends \cup {"item"}
         /\ messages[i].type \in {"item", "cancel"} => messages[i].id \in Streams
    ELSE messages[i].type \in {"invocation", "close"}

Stories ==
  /\ \A c \in Calls : seen[c] \in Seq(About(c)) /\ Sound(Story(c), answers[c])
  /\ \A c \in Calls \ Back : answers[c] = <<>> /\ seen[c] = <<>>
  /\ Addressed(wire) /\ Addressed(batch)

\* A call that was registered has a handler until it ends, and no other has one.
Held ==
  /\ \A c \in Registered : c \in stream_handlers \/ Ended(c)
  /\ stream_handlers \subseteq Registered

StoryInv == DispatchInv /\ CallInv /\ Stories /\ Held /\ InOrder
-----------------------------------------------------------------------------
\* The messages a story may have.
LEMMA AboutMessage ==
  ASSUME NEW c \in Calls
  PROVE  /\ About(c) \subseteq Message
         /\ \A m \in About(c) : m.id = c /\ (m.type = "item" <=> ~IsEnd(m))
BY DEF About, Message, Messages, IsEnd, Ends

\* A story goes on: the next item, or an end.
LEMMA SoundGrows ==
  ASSUME NEW c \in Calls, NEW story \in Seq(About(c)), NEW m \in About(c),
         NEW sent \in Seq(Message),
         Sound(story, sent),
         m.type = "item" => ~HasEnd(sent) /\ m.item = Len(sent) + 1
  PROVE  Sound(Append(story, m), Append(sent, m))
<1> DEFINE t == Append(story, m)
           n == Len(story) + 1
           s == Append(sent, m)
<1>1. /\ DOMAIN t = 1..n /\ DOMAIN story = 1..(n - 1) /\ n \in Nat /\ t[n] = m
      /\ \A i \in 1..(n - 1) : t[i] = story[i] /\ story[i] \in About(c)
  OBVIOUS
<1>2. /\ Len(s) = Len(sent) + 1 /\ Len(sent) \in Nat
      /\ HasEnd(sent) \/ IsEnd(m) => HasEnd(s)
  <2>1. /\ DOMAIN sent = 1..Len(sent) /\ Len(sent) \in Nat
        /\ DOMAIN s = 1..(Len(sent) + 1)
        /\ s[Len(sent) + 1] = m
        /\ \A i \in DOMAIN sent : s[i] = sent[i]
    OBVIOUS
  <2> HIDE DEF s
  <2> QED BY <2>1 DEF HasEnd
<1> HIDE DEF t, n, s
<1>3. \A i \in 1..n : t[i] \in About(c)
  BY <1>1
<1>4. ASSUME NEW i \in 1..n, NEW j \in 1..n, i < j, t[j].type = "item"
      PROVE  t[i].type = "item" /\ t[i].item < t[j].item
  <2>1. CASE j # n
    BY <1>1, <1>4, <2>1 DEF Sound
  <2>2. CASE j = n
    <3>1. t[j] = m /\ ~HasEnd(sent) /\ m.item = Len(sent) + 1 /\ i \in 1..(n - 1) /\ t[i] = story[i]
      BY <1>1, <1>4, <2>2
    <3>2. t[i].type = "item"
      BY <1>1, <3>1, AboutMessage DEF Sound
    <3>3. t[i].item \in 1..Len(sent)
      BY <1>1, <3>1, <3>2 DEF Sound
    <3> QED BY <1>2, <3>1, <3>2, <3>3
  <2> QED BY <2>1, <2>2
<1>5. ASSUME NEW i \in 1..n
      PROVE  /\ IsEnd(t[i]) => HasEnd(s)
             /\ t[i].type = "item" => t[i].item \in 1..Len(s)
  <2>1. CASE i # n
    BY <1>1, <1>2, <2>1 DEF Sound
  <2>2. CASE i = n
    BY <1>1, <1>2, <2>2
  <2> QED BY <2>1, <2>2
<1>6. Sound(t, s)
  BY <1>1, <1>4, <1>5 DEF Sound
<1> QED BY <1>6 DEF t, s

\* A story stays sound when a part of it is left out.
LEMMA SoundPart ==
  ASSUME NEW S, NEW a \in Seq(S), NEW b \in Seq(S), NEW d \in Seq(S), NEW sent,
         Sound(a \o (b \o d), sent)
  PROVE  Sound(a \o d, sent)
<1> DEFINE long == a \o (b \o d)
           short == a \o d
           at_(i) == IF i <= Len(a) THEN i ELSE i + Len(b)
<1>1. /\ Len(a) \in Nat /\ Len(b) \in Nat /\ Len(d) \in Nat
      /\ DOMAIN short = 1..(Len(a) + Len(d)) /\ DOMAIN long = 1..(Len(a) + Len(b) + Len(d))
      /\ \A i \in DOMAIN short : short[i] = long[at_(i)]
  OBVIOUS
<1> HIDE DEF long, short
<1>2. \A i \in DOMAIN short : at_(i) \in DOMAIN long
  BY <1>1
<1>3. \A i, j \in DOMAIN short : i < j => at_(i) < at_(j)
  BY <1>1
<1> HIDE DEF at_
<1>4. Sound(long, sent)
  BY DEF long
<1>5. ASSUME NEW i \in DOMAIN short, NEW j \in DOMAIN short, i < j, short[j].type = "item"
      PROVE  short[i].type = "item" /\ short[i].item < short[j].item
  <2>1. at_(i) \in DOMAIN long /\ at_(j) \in DOMAIN long /\ at_(i) < at_(j)
    BY <1>2, <1>3, <1>5
  <2>2. short[i] = long[at_(i)] /\ short[j] = long[at_(j)]
    BY <1>1
  <2> QED BY <1>4, <1>5, <2>1, <2>2 DEF Sound
<1>6. \A i \in DOMAIN short :
        /\ IsEnd(short[i]) => HasEnd(sent)
        /\ short[i].type = "item" => short[i].item \in 1..Len(sent)
  BY <1>1, <1>2, <1>4 DEF Sound
<1>7. Sound(short, sent)
  BY <1>5, <1>6 DEF Sound
<1> QED BY <1>7 DEF short
\* Or when one of two parts is, or both.
LEMMA SoundParts ==
  ASSUME NEW S, NEW a \in Seq(S), NEW b \in Seq(S), NEW d \in Seq(S), NEW sent,
         Sound(a \o (b \o d), sent)
  PROVE  Sound(a \o d, sent) /\ Sound(a \o b, sent) /\ Sound(a, sent)
<1>1. Sound(a \o d, sent)
  BY SoundPart
<1>2. ASSUME NEW s \in Seq(S), NEW t \in Seq(S), Sound(s \o t, sent)
      PROVE  Sound(s, sent)
  <2>1. /\ DOMAIN s \subseteq DOMAIN (s \o t)
        /\ \A i \in DOMAIN s : (s \o t)[i] = s[i]
    OBVIOUS
  <2> DEFINE whole == s \o t
  <2>2. Sound(whole, sent) /\ DOMAIN s \subseteq DOMAIN whole /\ \A i \in DOMAIN s : whole[i] = s[i]
    BY <1>2, <2>1
  <2> HIDE DEF whole
  <2> QED BY <2>2 DEF Sound
<1>3. Sound(a \o b, sent)
  <2>1. a \o (b \o d) = (a \o b) \o d /\ a \o b \in Seq(S)
    BY ConcatAssociative
  <2> QED BY <1>2, <2>1
<1> QED BY <1>1, <1>2, <1>3
-----------------------------------------------------------------------------
\* A message goes to the callback of its call, whose handler is one of these.
Gives(m, handlers) ==
  /\ m.id \in handlers /\ m \in About(m.id)
  /\ m.type = "item" <=> at' = "next"
  /\ seen' = [seen EXCEPT ![m.id] = Append(@, m)]

\* What the hub did not send to a call is not about one.
LEMMA AddressedAbout ==
  ASSUME NEW messages \in Seq(Message), Addressed(messages), NEW i \in DOMAIN messages
  PROVE  /\ messages[i] \in Message
         /\ \A c \in Calls : messages[i] \in About(c) <=> messages[i].id = c
<1>1. messages[i] \in Message
  OBVIOUS
<1> QED BY <1>1 DEF Addressed, About, Message, Messages

\* The callback of a message, and whose it is.
LEMMA CallbackMeans ==
  ASSUME NEW m \in Message, NEW handlers \in SUBSET Calls, NEW messages \in Seq(Message),
         Addressed(messages), NEW i \in DOMAIN messages, m = messages[i]
  PROVE  LET label == Callback(m, handlers)
         IN /\ ToCall(label) =>
                 /\ m.id \in handlers /\ m \in About(m.id)
                 /\ m.type = "item" <=> label = "next"
            /\ label = "reading" => m.id \notin handlers
            /\ label \in {"handler", "stop"} => m.id \notin Calls
<1>1. \A c \in Calls : m \in About(c) <=> m.id = c
  BY AddressedAbout
<1>2. IF m.id \in Calls
      THEN /\ m.type \in Ends \cup {"item"}
           /\ m.type \in {"item", "cancel"} => m.id \in Streams
      ELSE m.type \in {"invocation", "close"}
  BY DEF Addressed
<1> QED BY <1>1, <1>2 DEF Callback, ToCall, IsEnd, Ends, Completes

\* Going on with messages = skipped \o rest leaves skipped out, for which there
\* is no handler, and may give the next message to a call.  The stories of all
\* calls go on with rest.
Tells(messages, handlers, skipped, rest) ==
  /\ messages = skipped \o rest
  /\ \A i \in DOMAIN skipped : skipped[i].id \notin handlers
  /\ \A c \in Calls : Story(c)' = seen[c] \o Only(rest \o wire', About(c))
  /\ Addressed(batch)' /\ batch' \in Seq(Message)
  /\ UNCHANGED seen \/ \E i \in DOMAIN messages : Gives(messages[i], handlers)

\* This is what the dispatcher does, whatever it stops for.
LEMMA DispatchTells ==
  ASSUME NEW messages \in Seq(Message), NEW handlers \in SUBSET Calls,
         Addressed(messages),
         seen \in [Calls -> Seq(Message)], wire' \in Seq(Message),
         Dispatch(messages, handlers)
  PROVE  \E skipped, rest \in Seq(Message) : Tells(messages, handlers, skipped, rest)
<1> DEFINE fires == {i \in DOMAIN messages : Callback(messages[i], handlers) # "reading"}
           callback(i) == Callback(messages[i], handlers)
<1>1. CASE fires = {}
  <2>1. batch' = <<>> /\ at' = "reading" /\ UNCHANGED seen
    BY <1>1 DEF Dispatch, givenVars
  <2>2. Pending' = <<>> \o wire'
    BY <2>1 DEF Pending
  <2>3. \A c \in Calls : Story(c)' = seen[c] \o Only(<<>> \o wire', About(c))
    BY <2>1, <2>2 DEF Story
  <2>4. \A i \in DOMAIN messages : messages[i].id \notin handlers
    BY <1>1, CallbackMeans
  <2>5. messages = messages \o <<>> /\ <<>> \in Seq(Message)
    OBVIOUS
  <2>6. Addressed(batch)'
    BY <2>1 DEF Addressed
  <2>7. Tells(messages, handlers, messages, <<>>)
    BY <2>1, <2>3, <2>4, <2>5, <2>6 DEF Tells
  <2> QED BY <2>5, <2>7
<1>2. CASE fires # {}
  <2>1. PICK i \in DOMAIN messages :
          /\ callback(i) # "reading"
          /\ \A j \in DOMAIN messages : callback(j) # "reading" => i <= j
          /\ batch' = SubSeq(messages, i, Len(messages))
          /\ Enter(messages[i], callback(i))
    BY <1>2 DEF Dispatch
  <2> DEFINE m == messages[i]
             label == callback(i)
             skipped == SubSeq(messages, 1, i - 1)
             rest == SubSeq(messages, i, Len(messages))
             after == SubSeq(messages, i + 1, Len(messages))
  <2> HIDE DEF m, label, skipped, rest, after
  <2>2a. Split(messages, i, skipped, rest, after) /\ m \in Message
    BY SplitAt DEF m, skipped, rest, after
  <2>2b. skipped \in Seq(Message) /\ rest \in Seq(Message) /\ after \in Seq(Message)
    BY SplitAt DEF skipped, rest, after
  <2>2c. messages = skipped \o rest /\ rest = One(m) \o after /\ Tail(rest) = after
    BY <2>2a DEF Split, m
  <2>2d. /\ DOMAIN skipped = 1..(i - 1) /\ \A j \in 1..(i - 1) : skipped[j] = messages[j]
        /\ \A j \in DOMAIN rest : i + j - 1 \in DOMAIN messages /\ rest[j] = messages[i + j - 1]
    BY <2>2a DEF Split
  <2>3. \A j \in DOMAIN skipped : skipped[j].id \notin handlers
    <3>1. ASSUME NEW j \in 1..(i - 1) PROVE messages[j].id \notin handlers
      <4>1. j \in DOMAIN messages /\ ~(i <= j)
        BY <2>1
      <4>2. callback(j) = "reading" /\ messages[j] \in Message
        BY <2>1, <4>1
      <4> QED BY <4>1, <4>2, CallbackMeans
    <3> QED BY <2>2d, <3>1
  <2>4. Addressed(batch)'
    <3>2. \A j \in DOMAIN rest : \E k \in DOMAIN messages : rest[j] = messages[k]
      BY <2>2d
    <3>3. batch' = rest
      BY <2>1 DEF rest
    <3> QED BY <3>2, <3>3 DEF Addressed
  <2>5. batch' = rest /\ at' = label
    BY <2>1 DEF Enter, rest, label
  <2>6. /\ ToCall(label) => /\ m.id \in handlers /\ m \in About(m.id)
                            /\ m.type = "item" <=> label = "next"
        /\ label \in {"handler", "stop"} => m.id \notin Calls
        /\ \A c \in Calls : m \in About(c) <=> m.id = c
    BY <2>2a, CallbackMeans, AddressedAbout DEF m, label
  <2>7. label \in {"handler", "next", "on_error", "complete", "error", "stop"}
    BY <2>1 DEF Callback, label
  <2>8. Enter(m, label)
    BY <2>1 DEF m, label
  <2>9. ASSUME NEW c \in Calls
        PROVE  /\ m \in About(c) => Only(rest \o wire', About(c)) = One(m) \o Only(after \o wire', About(c))
               /\ m \notin About(c) => Only(rest \o wire', About(c)) = Only(after \o wire', About(c))
    <3>1. m \in Message /\ rest \in Seq(Message) /\ after \in Seq(Message) /\ rest = One(m) \o after
      BY <2>2a, <2>2b, <2>2c
    <3> QED BY <3>1, OnlyFirst
  <2>10. ASSUME ToCall(label) PROVE Tells(messages, handlers, skipped, rest)
    <3>1. seen' = [seen EXCEPT ![m.id] = Append(@, m)] /\ Gives(m, handlers)
      BY <2>5, <2>6, <2>8, <2>10 DEF Enter, Gives
    <3>2. Pending' = after \o wire'
      BY <2>2c, <2>5, <2>10 DEF Pending, ToCall
    <3>3. ASSUME NEW c \in Calls
          PROVE  Story(c)' = seen[c] \o Only(rest \o wire', About(c))
      <4> DEFINE o == Only(after \o wire', About(c))
      <4>1. after \o wire' \in Seq(Message)
        BY <2>2b
      <4>2. seen[c] \in Seq(Message) /\ o \in Seq(Message)
        BY <4>1, OnlyTyped
      <4>3. Story(c)' = seen'[c] \o o
        BY <3>2 DEF Story
      <4>4. seen'[c] = IF c = m.id THEN Append(seen[c], m) ELSE seen[c]
        BY <3>1
      <4> HIDE DEF o
      <4>5. CASE c = m.id
        <5>1. Append(seen[c], m) \o o = seen[c] \o (One(m) \o o)
          BY <2>2a, <4>2, AppendConcat
        <5> QED BY <2>6, <2>9, <4>3, <4>4, <4>5, <5>1 DEF o
      <4>6. CASE c # m.id
        BY <2>6, <2>9, <4>3, <4>4, <4>6 DEF o
      <4> QED BY <4>5, <4>6
    <3>4. \E k \in DOMAIN messages : Gives(messages[k], handlers)
      <4>1. m = messages[i]
        BY DEF m
      <4> QED BY <3>1, <4>1
    <3> QED BY <2>2a, <2>2b, <2>2c, <2>3, <2>4, <2>5, <3>3, <3>4 DEF Tells
  <2>11. ASSUME label = "on_error" PROVE Tells(messages, handlers, skipped, rest)
    <3>1. seen' = seen
      BY <2>8, <2>11 DEF Enter, ToCall
    <3>2. Pending' = rest \o wire'
      BY <2>5, <2>11 DEF Pending
    <3> QED BY <2>2b, <2>2c, <2>3, <2>4, <2>5, <3>1, <3>2 DEF Story, Tells
  <2>12. ASSUME label \in {"handler", "stop"} PROVE Tells(messages, handlers, skipped, rest)
    <3>1. seen' = seen
      BY <2>8, <2>12 DEF Enter, ToCall
    <3>2. Pending' = after \o wire'
      BY <2>2c, <2>5, <2>12 DEF Pending
    <3>3. ASSUME NEW c \in Calls
          PROVE  Story(c)' = seen[c] \o Only(rest \o wire', About(c))
      <4>1. m \notin About(c)
        BY <2>6, <2>12
      <4> QED BY <2>9, <3>1, <3>2, <4>1 DEF Story
    <3> QED BY <2>2b, <2>2c, <2>3, <2>4, <2>5, <3>1, <3>3 DEF Tells
  <2> QED BY <2>2b, <2>7, <2>10, <2>11, <2>12 DEF ToCall
<1> QED BY <1>1, <1>2
-----------------------------------------------------------------------------
(* Prefixes, and what a story consists of.                                 *)

LEMMA PrefixConcat ==
  ASSUME NEW S, NEW s \in Seq(S), NEW t \in Seq(S)
  PROVE  IsPrefix(s, s \o t)
BY DEF IsPrefix

LEMMA PrefixAppend ==
  ASSUME NEW S, NEW s \in Seq(S), NEW t \in Seq(S), NEW e \in S, IsPrefix(s, t)
  PROVE  IsPrefix(s, Append(t, e))
BY DEF IsPrefix

\* What is left of the frame, without the message that was handed over.
Ahead == IF at \in {"reading", "on_error"} THEN batch ELSE Tail(batch)

LEMMA PendingParts ==
  ASSUME TypeOK, AnswersComeLate, Addressed(wire), Addressed(batch)
  PROVE  /\ Pending = Ahead \o wire
         /\ Ahead \in Seq(Message) /\ wire \in Seq(Message) /\ Pending \in Seq(Message)
         /\ AboutBack(Ahead) /\ AboutBack(Pending)
         /\ Addressed(Ahead)
<1>1. Pending = Ahead \o wire
  BY DEF Pending, Ahead
<1>2. wire \in Seq(Message) /\ batch \in Seq(Message) /\ (at # "reading" => batch # <<>>)
  BY DEF TypeOK
<1>3. /\ Ahead \in Seq(Message)
      /\ \A i \in DOMAIN Ahead : \E j \in DOMAIN batch : Ahead[i] = batch[j]
  <2>1. CASE at \in {"reading", "on_error"}
    BY <1>2, <2>1 DEF Ahead
  <2>2. CASE at \notin {"reading", "on_error"}
    <3>1. /\ Tail(batch) \in Seq(Message)
          /\ \A i \in DOMAIN Tail(batch) : i + 1 \in DOMAIN batch /\ Tail(batch)[i] = batch[i + 1]
      BY <1>2, <2>2
    <3> QED BY <2>2, <3>1 DEF Ahead
  <2> QED BY <2>1, <2>2
<1>4. AboutBack(Ahead) /\ Addressed(Ahead)
  BY <1>3 DEF AboutBack, Addressed, AnswersComeLate
<1>5. Ahead \o wire \in Seq(Message)
  BY <1>2, <1>3
<1>6. \A i \in DOMAIN (Ahead \o wire) :
        \/ \E j \in DOMAIN Ahead : (Ahead \o wire)[i] = Ahead[j]
        \/ \E j \in DOMAIN wire : (Ahead \o wire)[i] = wire[j]
  <2>1. ASSUME NEW a \in Seq(Message), NEW w \in Seq(Message), NEW i \in DOMAIN (a \o w)
        PROVE  (\E j \in DOMAIN a : (a \o w)[i] = a[j]) \/ (\E j \in DOMAIN w : (a \o w)[i] = w[j])
    <3>1. CASE i <= Len(a)
      BY <2>1, <3>1
    <3>2. CASE ~(i <= Len(a))
      <4>1. i - Len(a) \in DOMAIN w /\ (a \o w)[i] = w[i - Len(a)]
        BY <2>1, <3>2
      <4> QED BY <4>1
    <3> QED BY <3>1, <3>2
  <2> QED BY <1>2, <1>3, <2>1
<1>7. AboutBack(Ahead \o wire)
  BY <1>4, <1>6 DEF AboutBack, AnswersComeLate
<1> QED BY <1>1, <1>2, <1>3, <1>4, <1>5, <1>7

\* What has been given to a call, and what is to come, is about the call.
LEMMA StoryTyped ==
  ASSUME Stories, Pending \in Seq(Message), NEW c \in Calls
  PROVE  /\ seen[c] \in Seq(About(c)) /\ seen[c] \in Seq(Message)
         /\ Only(Pending, About(c)) \in Seq(About(c)) /\ Only(Pending, About(c)) \in Seq(Message)
         /\ Story(c) \in Seq(About(c)) /\ Story(c) \in Seq(Message)
<1>1. seen[c] \in Seq(About(c)) /\ Only(Pending, About(c)) \in Seq(About(c))
  BY OnlyInSet DEF Stories
<1>2. \A s \in Seq(About(c)) : s \in Seq(Message)
  <2>1. About(c) \subseteq Message
    BY AboutMessage
  <2> QED BY <2>1, SeqMonotonic
<1>3. Story(c) \in Seq(About(c))
  BY <1>1 DEF Story
<1> QED BY <1>1, <1>2, <1>3
-----------------------------------------------------------------------------
(* The steps.                                                              *)

LEMMA StoryInit == Init => StoryInv
<1> SUFFICES ASSUME Init PROVE StoryInv
  OBVIOUS
<1>1. DispatchInv /\ CallInv
  BY DispatchInit, CallInit
<1>2. Pending = <<>>
  BY DEF Init, Pending
<1>3. ASSUME NEW c \in Calls
      PROVE  seen[c] = <<>> /\ answers[c] = <<>> /\ Story(c) = <<>> /\ ~Ended(c)
  <2>1. seen[c] = <<>> /\ answers[c] = <<>>
    BY DEF Init
  <2>2. Only(Pending, About(c)) = <<>>
    BY <1>2, OnlyEmpty
  <2> QED BY <2>1, <2>2 DEF Story, Ended
<1>4. Stories
  <2>1. \A c \in Calls : seen[c] \in Seq(About(c))
    BY <1>3, EmptySeq
  <2>2. ASSUME NEW c \in Calls PROVE Sound(Story(c), answers[c])
    BY <1>3 DEF Sound
  <2>3. Addressed(wire) /\ Addressed(batch)
    BY DEF Init, Addressed
  <2> QED BY <1>3, <2>1, <2>2, <2>3 DEF Stories
<1>5. Held /\ InOrder
  BY DEF Init, Held, Registered, InOrder
<1> QED BY <1>1, <1>4, <1>5 DEF StoryInv

\* A call that is not back has no part in what is pending.
LEMMA NothingPending ==
  ASSUME TypeOK, AnswersComeLate, Addressed(wire), Addressed(batch),
         NEW c \in Calls \ Back
  PROVE  Only(Pending, About(c)) = <<>>
<1>1. Pending \in Seq(Message) /\ AboutBack(Pending)
  BY PendingParts
<1>2. \A i \in DOMAIN Pending : Pending[i] \notin About(c)
  BY <1>1, AboutMessage DEF AboutBack
<1> QED BY <1>1, <1>2, OnlyNone

\* A caller that goes on.
LEMMA CallersTell ==
  ASSUME StoryInv, NEW c \in Calls,
         BeginSend(c) \/ CallStep(c) \/ Subscribe(c)
  PROVE  Stories' /\ Held' /\ InOrder'
<1> USE DEF StoryInv
<1>1. /\ UNCHANGED <<wire, batch, at, answers, seen, cut>>
      /\ stream_handlers' \in {stream_handlers, stream_handlers \cup {c}}
      /\ asked' \in {asked, asked \cup {c}}
      /\ \E p \in Phases : phase' = [phase EXCEPT ![c] = p]
  BY DEF BeginSend, CallStep, Subscribe, Register, MayRegister, Written, NotWritten, Outcomes,
         dispatchVars, hubVars, givenVars, Phases
<1>2. phase[c] \in Phases /\ phase \in [Calls -> Phases]
  BY DEF CallInv, TypeOK
<1>3. /\ phase[c] \notin {"idle", "token"} =>
           phase'[c] \notin {"idle", "token"} /\ stream_handlers' = stream_handlers
      /\ phase[c] \in {"idle", "token"} =>
           (phase'[c] \notin {"idle", "token"} <=> c \in stream_handlers')
      /\ phase[c] \in {"returned", "subscribed", "late"} =>
           phase'[c] \in {"returned", "subscribed", "late"}
      /\ c \in asked' \ asked => phase[c] = "write"
  <2>1. phase[c] \in {"idle", "token"} => c \notin stream_handlers
    BY DEF Held, Registered
  <2> QED BY <1>2, <2>1
     DEF BeginSend, CallStep, Subscribe, Register, MayRegister, Written, NotWritten, Outcomes,
         dispatchVars, hubVars, Phases, ConnectionAssumption
<1>4. Back \subseteq Back'
  BY <1>1, <1>2, <1>3 DEF Back
<1>5. Pending' = Pending /\ \A d \in Calls : Story(d)' = Story(d) /\ (Ended(d)' <=> Ended(d))
  BY <1>1 DEF Pending, Story, Ended, IsEnd
<1>6. Stories'
  BY <1>1, <1>4, <1>5 DEF Stories, Addressed
<1>7. Held'
  BY <1>1, <1>2, <1>3, <1>5 DEF Held, Registered
<1>8. InOrder'
  <2> SUFFICES ASSUME NEW d \in asked' \ cut
               PROVE  answers[d] = Story(d) \/ (Ended(d) /\ IsPrefix(seen[d], answers[d]))
    BY <1>1, <1>5 DEF InOrder, Story, IsPrefix, CallInv, TypeOK
  <2>1. CASE d \in asked
    BY <2>1 DEF InOrder, Story
  <2>2. CASE d \notin asked
    <3>1. d = c /\ d \notin Back
      BY <1>1, <1>3, <2>2 DEF Back
    <3>2. Only(Pending, About(d)) = <<>>
      BY <3>1, NothingPending DEF CallInv, Stories
    <3>3. answers[d] = <<>> /\ seen[d] = <<>>
      BY <3>1 DEF Stories
    <3> QED BY <3>2, <3>3 DEF Story
  <2> QED BY <2>1, <2>2
<1> QED BY <1>6, <1>7, <1>8

\* An answer of the hub goes at the end of the story of its call.
LEMMA AnswerTells ==
  ASSUME StoryInv, NEW c \in Calls, NEW m \in About(c), Answer(c, m),
         Addressed(<<m>>),
         m.type = "item" => ~Answered(c) /\ m.item = Len(answers[c]) + 1
  PROVE  Stories' /\ Held' /\ InOrder'
<1> USE DEF StoryInv, CallInv
<1>1. /\ wire' = Append(wire, m)
      /\ answers' = [answers EXCEPT ![c] = Append(@, m)]
      /\ c \in asked
      /\ UNCHANGED <<phase, stream_handlers, batch, at, asked, seen, cut>>
  BY DEF Answer, callVars, givenVars
<1>2. /\ Pending = Ahead \o wire /\ Pending \in Seq(Message)
      /\ Ahead \in Seq(Message) /\ wire \in Seq(Message)
      /\ Addressed(wire) /\ Addressed(batch)
  BY PendingParts DEF Stories
<1>3. m \in Message /\ \A d \in Calls : m \in About(d) <=> d = c
  BY AboutMessage
<1>4. Pending' = Append(Pending, m)
  <2>1. Pending' = Ahead \o wire'
    BY <1>1 DEF Pending, Ahead
  <2>2. ASSUME NEW s \in Seq(Message), NEW t \in Seq(Message)
        PROVE  s \o Append(t, m) = Append(s \o t, m)
    BY <1>3
  <2> QED BY <1>1, <1>2, <2>1, <2>2
<1>5. ASSUME NEW d \in Calls
      PROVE  /\ seen'[d] = seen[d] /\ (Ended(d)' <=> Ended(d))
             /\ answers'[d] = IF d = c THEN Append(answers[d], m) ELSE answers[d]
             /\ Story(d)' = IF d = c THEN Append(Story(d), m) ELSE Story(d)
             /\ Story(d) \in Seq(About(d)) /\ seen[d] \in Seq(Message)
             /\ answers[d] \in Seq(Message)
  <2>1. seen'[d] = seen[d] /\ (Ended(d)' <=> Ended(d))
    BY <1>1 DEF Ended, IsEnd
  <2>2. answers'[d] = IF d = c THEN Append(answers[d], m) ELSE answers[d]
    BY <1>1 DEF TypeOK
  <2>3. Only(Pending', About(d)) =
          IF d = c THEN Append(Only(Pending, About(d)), m) ELSE Only(Pending, About(d))
    <3>1. ASSUME NEW s \in Seq(Message), NEW T
          PROVE  Only(Append(s, m), T) = IF m \in T THEN Append(Only(s, T), m) ELSE Only(s, T)
      BY <1>3, OnlyAppend
    <3> QED BY <1>2, <1>3, <1>4, <3>1
  <2>4. /\ seen[d] \in Seq(Message) /\ Only(Pending, About(d)) \in Seq(Message)
        /\ Story(d) \in Seq(About(d))
    BY <1>2, StoryTyped
  <2>5. ASSUME NEW s \in Seq(Message), NEW t \in Seq(Message)
        PROVE  s \o Append(t, m) = Append(s \o t, m)
    BY <1>3
  <2>6. Story(d)' = IF d = c THEN Append(Story(d), m) ELSE Story(d)
    BY <2>1, <2>3, <2>4, <2>5 DEF Story
  <2>7. answers[d] \in Seq(Message)
    BY DEF TypeOK
  <2> QED BY <2>1, <2>2, <2>4, <2>6, <2>7
<1>6. Stories'
  <2>1. ASSUME NEW d \in Calls PROVE Sound(Story(d), answers[d])'
    <3>1. CASE d # c
      <4>1. Sound(Story(d)', answers'[d])
        BY <1>5, <3>1 DEF Stories
      <4> QED BY <4>1 DEF Sound, HasEnd, IsEnd
    <3>2. CASE d = c
      <4>1. Sound(Story(c), answers[c]) /\ (m.type = "item" => ~HasEnd(answers[c]))
        BY DEF Stories, Answered, HasEnd
      <4>2. Sound(Append(Story(c), m), Append(answers[c], m))
        BY <1>5, <4>1, SoundGrows
      <4>3. Sound(Story(d)', answers'[d])
        BY <1>5, <3>2, <4>2
      <4> QED BY <4>3 DEF Sound, HasEnd, IsEnd
    <3> QED BY <3>1, <3>2
  <2>2. Back' = Back /\ c \in Back
    BY <1>1 DEF Back, AnswersComeLate
  <2>3. Addressed(wire')
    <3>1. \A i \in DOMAIN wire' : wire'[i] = m \/ (i \in DOMAIN wire /\ wire'[i] = wire[i])
      BY <1>1, <1>2
    <3>2. 1 \in DOMAIN <<m>> /\ <<m>>[1] = m
      OBVIOUS
    <3> QED BY <1>2, <3>1, <3>2 DEF Addressed
  <2>4. /\ Addressed(wire)' /\ Addressed(batch)'
    BY <1>1, <1>2, <2>3 DEF Addressed
  <2> QED BY <1>5, <2>1, <2>2, <2>4 DEF Stories, About, Messages
<1>7. Held'
  BY <1>1, <1>5 DEF Held, Registered
<1>8. InOrder'
  <2> SUFFICES ASSUME NEW d \in asked \ cut
               PROVE  \/ answers'[d] = Story(d)'
                      \/ Ended(d)' /\ IsPrefix(seen'[d], answers'[d])
    BY <1>1 DEF InOrder, Story, IsPrefix
  <2>1. d \in Calls /\ (answers[d] = Story(d) \/ (Ended(d) /\ IsPrefix(seen[d], answers[d])))
    BY DEF InOrder, Story, TypeOK
  <2> QED BY <1>3, <1>5, <2>1, PrefixAppend
<1> QED BY <1>6, <1>7, <1>8

\* Invocations and Close messages have no part in a story.
LEMMA EventsTell ==
  ASSUME StoryInv, HubInvokes \/ HubClose
  PROVE  Stories' /\ Held' /\ InOrder'
<1> USE DEF StoryInv, CallInv
<1>1. PICK m \in Message :
        /\ m.id = None /\ m.type \in {"invocation", "close"}
        /\ wire' = Append(wire, m)
        /\ UNCHANGED <<phase, stream_handlers, batch, at, asked, answers, seen, cut>>
  <2>1. PICK k \in {"invocation", "close"} :
          /\ wire' = Append(wire, [type |-> k, id |-> None, item |-> 0])
          /\ UNCHANGED <<phase, stream_handlers, batch, at, asked, answers, seen, cut>>
    BY DEF HubInvokes, HubClose, hubVars, callVars, givenVars
  <2> DEFINE m == [type |-> k, id |-> None, item |-> 0]
  <2>2. m \in Message /\ m.id = None /\ m.type = k
    BY ConnectionAssumption DEF Message, Messages
  <2>3. wire' = Append(wire, m)
    BY <2>1
  <2> HIDE DEF m
  <2> QED BY <2>1, <2>2, <2>3
<1>2. /\ Pending = Ahead \o wire /\ Pending \in Seq(Message)
      /\ Ahead \in Seq(Message) /\ wire \in Seq(Message)
      /\ Addressed(wire) /\ Addressed(batch)
  BY PendingParts DEF Stories
<1>3. \A d \in Calls : m \notin About(d)
  BY <1>1, AboutMessage, ConnectionAssumption
<1>4. Pending' = Append(Pending, m)
  <2>1. Pending' = Ahead \o wire'
    BY <1>1 DEF Pending, Ahead
  <2>2. ASSUME NEW s \in Seq(Message), NEW t \in Seq(Message)
        PROVE  s \o Append(t, m) = Append(s \o t, m)
    BY <1>1
  <2> QED BY <1>1, <1>2, <2>1, <2>2
<1>5. ASSUME NEW d \in Calls
      PROVE  Story(d)' = Story(d) /\ (Ended(d)' <=> Ended(d))
  <2>1. ASSUME NEW s \in Seq(Message), NEW T
        PROVE  Only(Append(s, m), T) = IF m \in T THEN Append(Only(s, T), m) ELSE Only(s, T)
    BY <1>1, OnlyAppend
  <2>2. Only(Pending', About(d)) = Only(Pending, About(d))
    BY <1>2, <1>3, <1>4, <2>1
  <2> QED BY <1>1, <2>2 DEF Story, Ended, IsEnd
<1>6. Stories'
  <2>1. Back' = Back
    BY <1>1 DEF Back
  <2>2. Addressed(wire')
    <3>1. \A i \in DOMAIN wire' : wire'[i] = m \/ (i \in DOMAIN wire /\ wire'[i] = wire[i])
      BY <1>1, <1>2
    <3> QED BY <1>1, <1>2, <3>1, ConnectionAssumption DEF Addressed
  <2>3. Addressed(wire)' /\ Addressed(batch)'
    BY <1>1, <1>2, <2>2 DEF Addressed
  <2>4. \A d \in Calls : Sound(Story(d), answers[d])'
    <3>1. \A d \in Calls : Sound(Story(d)', answers'[d])
      BY <1>1, <1>5 DEF Stories
    <3> QED BY <3>1 DEF Sound, HasEnd, IsEnd
  <2> QED BY <1>1, <2>1, <2>3, <2>4 DEF Stories, About, Messages
<1>7. Held'
  BY <1>1, <1>5 DEF Held, Registered
<1>8. InOrder'
  <2> SUFFICES ASSUME NEW d \in asked \ cut
               PROVE  answers[d] = Story(d) \/ (Ended(d) /\ IsPrefix(seen[d], answers[d]))
    BY <1>1, <1>5 DEF InOrder, Story, IsPrefix, TypeOK
  <2> QED BY DEF InOrder, Story
<1> QED BY <1>6, <1>7, <1>8

\* A loss, a callback that raises and a Close leave out what was pending, or a
\* part of it; on a connection that goes on, only calls of the frame miss it.
LEMMA CutsTell ==
  ASSUME StoryInv, Raises \/ Lose \/ StopReturns
  PROVE  Stories' /\ Held' /\ InOrder'
<1> USE DEF StoryInv, CallInv
<1>1. /\ Pending = Ahead \o wire /\ Pending \in Seq(Message)
      /\ Ahead \in Seq(Message) /\ wire \in Seq(Message)
      /\ Addressed(wire) /\ Addressed(batch)
  BY PendingParts DEF Stories
<1>2. UNCHANGED <<phase, stream_handlers, answers, seen>>
  BY DEF Raises, Lose, StopReturns, callVars, givenVars, hubVars
<1>3. \/ /\ wire' = wire /\ batch' = <<>> /\ at' = "reading"
         /\ asked' = asked /\ cut' = cut \cup InFrame
      \/ wire' = <<>> /\ batch' = <<>> /\ at' = "reading" /\ asked' = {}
      \/ wire' = <<>> /\ batch' = batch /\ at' = at /\ asked' = {}
  BY DEF Raises, Lose, StopReturns, AfterRaise, callVars, hubVars
<1>4. \/ Pending' = wire /\ asked' = asked /\ cut' = cut \cup InFrame
      \/ Pending' \in {<<>>, Ahead} /\ asked' = {}
  <2>1. \A s \in Seq(Message) : <<>> \o s = s /\ s \o <<>> = s
    BY ConcatEmptySeq
  <2>2. <<>> \in Seq(Message)
    OBVIOUS
  <2>3. CASE batch' = <<>> /\ at' = "reading"
    <3>1. Pending' = <<>> \o wire'
      BY <2>3 DEF Pending
    <3> QED BY <1>1, <1>3, <2>1, <2>2, <3>1
  <2>4. CASE wire' = <<>> /\ batch' = batch /\ at' = at /\ asked' = {}
    <3>1. Pending' = Ahead \o <<>>
      BY <2>4 DEF Pending, Ahead
    <3> QED BY <1>1, <2>1, <2>4, <3>1
  <2> QED BY <1>3, <2>3, <2>4
<1>5. ASSUME NEW c \in Calls
      PROVE  Sound(Story(c)', answers[c]) /\ (Ended(c)' <=> Ended(c))
  <2> DEFINE o == Only(Ahead, About(c))
             w == Only(wire, About(c))
  <2>1. /\ seen[c] \in Seq(Message) /\ o \in Seq(Message) /\ w \in Seq(Message)
        /\ Only(<<>>, About(c)) = <<>>
    BY <1>1, StoryTyped, OnlyTyped, OnlyEmpty
  <2>2. Story(c) = seen[c] \o (o \o w)
    <3>1. Only(Ahead \o wire, About(c)) = o \o w
      BY <1>1, OnlyConcat
    <3> QED BY <1>1, <3>1 DEF Story
  <2>3. Story(c)' \in {seen[c] \o w, seen[c] \o o, seen[c] \o Only(<<>>, About(c))}
    BY <1>2, <1>4 DEF Story
  <2> HIDE DEF o, w
  <2>4. seen[c] \o <<>> = seen[c]
    BY <2>1, ConcatEmptySeq
  <2>5. Sound(seen[c] \o (o \o w), answers[c])
    BY <2>2 DEF Stories
  <2>6. Sound(seen[c] \o w, answers[c]) /\ Sound(seen[c] \o o, answers[c]) /\ Sound(seen[c], answers[c])
    BY <2>1, <2>5, SoundParts
  <2>7. Ended(c)' <=> Ended(c)
    BY <1>2 DEF Ended, IsEnd
  <2> QED BY <2>1, <2>3, <2>4, <2>6, <2>7
<1>6. Stories'
  <2>1. Back' = Back
    BY <1>2 DEF Back
  <2>2. Addressed(wire') /\ Addressed(batch')
    BY <1>1, <1>3 DEF Addressed
  <2>3. Addressed(wire)' /\ Addressed(batch)'
    BY <2>2 DEF Addressed
  <2>4. \A c \in Calls : Sound(Story(c), answers[c])'
    <3>1. \A c \in Calls : Sound(Story(c)', answers'[c])
      BY <1>2, <1>5
    <3> QED BY <3>1 DEF Sound, HasEnd, IsEnd
  <2> QED BY <1>2, <2>1, <2>3, <2>4 DEF Stories, About, Messages
<1>7. Held'
  BY <1>2, <1>5 DEF Held, Registered
<1>8. InOrder'
  <2>1. CASE asked' = {}
    BY <2>1 DEF InOrder
  <2>2. ASSUME Pending' = wire, asked' = asked, cut' = cut \cup InFrame,
               NEW c \in asked' \ cut'
        PROVE  answers[c] = Story(c)' \/ (Ended(c) /\ IsPrefix(seen[c], answers[c]))
    <3>1. c \in asked \ cut /\ c \in Calls /\ c \notin InFrame
      BY <2>2 DEF TypeOK
    <3>2. answers[c] = Story(c) \/ (Ended(c) /\ IsPrefix(seen[c], answers[c]))
      BY <3>1 DEF InOrder, Story
    <3>3. \A i \in DOMAIN Ahead : Ahead[i] \notin About(c)
      <4>1. \A i \in DOMAIN batch : batch[i].id # c
        BY <3>1 DEF InFrame, ToSet
      <4>2. \A i \in DOMAIN Ahead : \E j \in DOMAIN batch : Ahead[i] = batch[j]
        <5>1. CASE at \in {"reading", "on_error"}
          BY <5>1 DEF Ahead
        <5>2. CASE at \notin {"reading", "on_error"}
          <6>1. /\ Tail(batch) \in Seq(Message)
                /\ \A i \in DOMAIN Tail(batch) : i + 1 \in DOMAIN batch /\ Tail(batch)[i] = batch[i + 1]
            BY <5>2 DEF TypeOK
          <6> QED BY <5>2, <6>1 DEF Ahead
        <5> QED BY <5>1, <5>2
      <4> QED BY <3>1, <4>1, <4>2, AboutMessage
    <3>4. Only(Ahead, About(c)) = <<>>
      BY <1>1, <3>3, OnlyNone
    <3>5. Only(Pending, About(c)) = <<>> \o Only(wire, About(c))
      <4>1. Only(Ahead \o wire, About(c)) = Only(Ahead, About(c)) \o Only(wire, About(c))
        BY <1>1, OnlyConcat
      <4> QED BY <1>1, <3>4, <4>1
    <3>6. <<>> \o Only(wire, About(c)) = Only(wire, About(c))
      BY <1>1, OnlyTyped, ConcatEmptySeq
    <3>7. Story(c)' = Story(c)
      BY <1>2, <2>2, <3>5, <3>6 DEF Story
    <3> QED BY <3>2, <3>7
  <2>3. CASE Pending' = wire /\ asked' = asked /\ cut' = cut \cup InFrame
    <3>1. \A c \in asked' \ cut' : answers[c] = Story(c)' \/ (Ended(c) /\ IsPrefix(seen[c], answers[c]))
      BY <2>2, <2>3
    <3> QED BY <1>2, <1>5, <2>3, <3>1 DEF InOrder, Story, IsPrefix, TypeOK
  <2> QED BY <1>4, <2>1, <2>3
<1> QED BY <1>6, <1>7, <1>8

\* What is given to a call: nothing to most, one message to one of them.
LEMMA Given ==
  ASSUME TypeOK, NEW m \in Message, NEW handlers \in SUBSET Calls,
         UNCHANGED seen \/ Gives(m, handlers), NEW c \in Calls
  PROVE  /\ Ended(c) => Ended(c)'
         /\ c \notin handlers => seen'[c] = seen[c]
         /\ seen[c] \in Seq(About(c)) => seen'[c] \in Seq(About(c))
<1>1. CASE UNCHANGED seen
  BY <1>1 DEF Ended, IsEnd
<1>2. CASE Gives(m, handlers)
  <2>1. /\ m.id \in handlers /\ m \in About(m.id)
        /\ seen' = [seen EXCEPT ![m.id] = Append(@, m)]
    BY <1>2 DEF Gives
  <2>2. seen \in [Calls -> Seq(Message)]
    BY DEF TypeOK
  <2>3. CASE c # m.id
    <3>1. seen'[c] = seen[c]
      BY <2>1, <2>2, <2>3
    <3> QED BY <3>1 DEF Ended, IsEnd
  <2>4. CASE c = m.id
    <3>1. seen'[c] = Append(seen[c], m) /\ seen[c] \in Seq(Message)
      BY <2>1, <2>2, <2>4
    <3>2. \A i \in DOMAIN seen[c] : i \in DOMAIN seen'[c] /\ seen'[c][i] = seen[c][i]
      BY <3>1
    <3>3. Ended(c) => Ended(c)'
      BY <3>2 DEF Ended, IsEnd
    <3>4. seen[c] \in Seq(About(c)) => seen'[c] \in Seq(About(c))
      <4>1. m \in About(c)
        BY <2>1, <2>4
      <4>2. ASSUME NEW s \in Seq(About(c)) PROVE Append(s, m) \in Seq(About(c))
        BY <4>1, AppendProperties
      <4> QED BY <3>1, <4>2
    <3> QED BY <2>1, <2>4, <3>3, <3>4
  <2> QED BY <2>3, <2>4
<1> QED BY <1>1, <1>2

\* The dispatcher moves on: passed has been handed over, or is for nobody,
\* and it goes on with messages, for handlers that have not been given an end.
LEMMA MovesTell ==
  ASSUME StoryInv, CallInv',
         NEW passed \in Seq(Message), NEW messages \in Seq(Message),
         Pending = passed \o (messages \o wire'),
         \A i \in DOMAIN passed : passed[i].id \notin stream_handlers',
         Addressed(messages), AboutBack(messages), Addressed(wire'),
         stream_handlers' \subseteq stream_handlers,
         \A c \in stream_handlers \ stream_handlers' : Ended(c),
         \A c \in stream_handlers' \ cut : ~Ended(c),
         Dispatch(messages, stream_handlers'),
         UNCHANGED <<phase, hubVars, cut>>
  PROVE  Stories' /\ Held' /\ InOrder'
<1> USE DEF StoryInv, CallInv
<1> DEFINE handlers == stream_handlers'
<1>0. /\ Pending \in Seq(Message) /\ wire' \in Seq(Message)
      /\ handlers \in SUBSET Calls /\ seen \in [Calls -> Seq(Message)]
  BY PendingParts DEF Stories, TypeOK
<1>1. PICK skipped \in Seq(Message), rest \in Seq(Message) : Tells(messages, handlers, skipped, rest)
  BY <1>0, DispatchTells
<1>2. PICK m \in Message :
        /\ UNCHANGED seen \/ Gives(m, handlers)
        /\ m.id \in Calls => m.id \in Back
  <2>1. UNCHANGED seen \/ \E i \in DOMAIN messages : Gives(messages[i], handlers)
    BY <1>1 DEF Tells
  <2>2. CASE UNCHANGED seen
    <3>1. [type |-> "close", id |-> None, item |-> 0] \in Message
      BY ConnectionAssumption DEF Message, Messages
    <3> QED BY <2>2, <3>1, ConnectionAssumption
  <2>3. CASE \E i \in DOMAIN messages : Gives(messages[i], handlers)
    <3>1. PICK i \in DOMAIN messages : Gives(messages[i], handlers)
      BY <2>3
    <3>2. messages[i] \in Message /\ (messages[i].id \in Calls => messages[i].id \in Back)
      BY DEF AboutBack
    <3> QED BY <3>1, <3>2
  <2> QED BY <2>1, <2>2, <2>3
<1> HIDE DEF handlers
<1>3. ASSUME NEW c \in Calls
      PROVE  /\ Ended(c) => Ended(c)'
             /\ c \notin handlers => seen'[c] = seen[c]
             /\ seen'[c] \in Seq(About(c))
  BY <1>0, <1>2, Given DEF Stories
<1> DEFINE left == passed \o skipped
           next == rest \o wire'
<1>4. /\ left \in Seq(Message) /\ next \in Seq(Message) /\ Pending = left \o next
      /\ \A i \in DOMAIN left : left[i].id \notin handlers
  <2>1. messages = skipped \o rest /\ \A i \in DOMAIN skipped : skipped[i].id \notin handlers
    BY <1>1 DEF Tells
  <2>2. Pending = (passed \o skipped) \o (rest \o wire')
    <3>1. passed \in Seq(Message) /\ skipped \in Seq(Message) /\ rest \in Seq(Message)
          /\ wire' \in Seq(Message)
      BY <1>0
    <3>2. Joined(passed, Joined(Joined(skipped, rest), wire')) =
            Joined(Joined(passed, skipped), Joined(rest, wire'))
      BY <3>1, FourParts
    <3> QED BY <2>1, <3>2 DEF Joined
  <2>3. Pending = left \o next
    BY <2>2
  <2>4. left \in Seq(Message) /\ next \in Seq(Message)
    BY <1>0
  <2>5. ASSUME NEW i \in DOMAIN left PROVE left[i].id \notin handlers
    <3>1. CASE i <= Len(passed)
      <4>1. i \in DOMAIN passed /\ left[i] = passed[i]
        BY <2>5, <3>1
      <4> QED BY <4>1 DEF handlers
    <3>2. CASE ~(i <= Len(passed))
      <4>1. i - Len(passed) \in DOMAIN skipped /\ left[i] = skipped[i - Len(passed)]
        BY <2>5, <3>2
      <4> QED BY <2>1, <4>1
    <3> QED BY <3>1, <3>2
  <2> HIDE DEF left, next
  <2> QED BY <2>3, <2>4, <2>5
<1> HIDE DEF left, next
<1>5. ASSUME NEW c \in Calls
      PROVE  /\ Story(c)' = seen[c] \o Only(next, About(c))
             /\ Story(c) = seen[c] \o (Only(left, About(c)) \o Only(next, About(c)))
             /\ Only(left, About(c)) \in Seq(Message) /\ Only(next, About(c)) \in Seq(Message)
             /\ seen[c] \in Seq(Message) /\ Only(Pending, About(c)) \in Seq(Message)
  <2>1. Only(left \o next, About(c)) = Only(left, About(c)) \o Only(next, About(c))
    BY <1>4, OnlyConcat
  <2>2. Story(c)' = seen[c] \o Only(next, About(c))
    BY <1>1 DEF Tells, next
  <2>3. Story(c) = seen[c] \o (Only(left, About(c)) \o Only(next, About(c)))
    BY <1>4, <2>1 DEF Story
  <2> QED BY <1>0, <1>4, <2>2, <2>3, OnlyTyped, StoryTyped
<1>6. Stories'
  <2>1. ASSUME NEW c \in Calls PROVE Sound(Story(c)', answers'[c])
    <3>1. Sound(seen[c] \o (Only(left, About(c)) \o Only(next, About(c))), answers[c])
      BY <1>5 DEF Stories
    <3>2. Sound(seen[c] \o Only(next, About(c)), answers[c])
      BY <1>5, <3>1, SoundPart
    <3> QED BY <1>5, <3>2 DEF hubVars
  <2>2. \A c \in Calls : Sound(Story(c), answers[c])'
    BY <2>1 DEF Sound, HasEnd, IsEnd
  <2>3. Addressed(batch)' /\ Addressed(wire)'
    BY <1>1 DEF Tells, Addressed
  <2>4. ASSUME NEW c \in Calls \ Back' PROVE answers'[c] = <<>> /\ seen'[c] = <<>>
    <3>1. c \notin Back
      BY <2>4 DEF Back
    <3>2. answers[c] = <<>> /\ seen[c] = <<>>
      BY <3>1 DEF Stories
    <3>3. seen'[c] = seen[c]
      BY <1>0, <1>2, <3>1 DEF Gives, TypeOK
    <3> QED BY <3>2, <3>3 DEF hubVars
  <2> QED BY <1>3, <2>2, <2>3, <2>4 DEF Stories, About, Messages
<1>7. Held'
  <2>1. Registered' = Registered
    BY DEF Registered
  <2> QED BY <1>3, <2>1 DEF Held, Registered
<1>8. InOrder'
  <2>1. ASSUME NEW c \in asked \ cut
        PROVE  answers[c] = Story(c)' \/ (Ended(c)' /\ IsPrefix(seen'[c], answers[c]))
    <3>1. c \in Calls /\ c \in Back
      BY DEF TypeOK, AnswersComeLate
    <3>2. answers[c] = Story(c) \/ (Ended(c) /\ IsPrefix(seen[c], answers[c]))
      BY DEF InOrder, Story
    <3>3. CASE Ended(c)
      <4>1. c \notin handlers
        BY <3>3 DEF handlers
      <4>2. seen'[c] = seen[c] /\ Ended(c)'
        BY <1>3, <3>1, <3>3, <4>1
      <4>3. IsPrefix(seen[c], seen[c] \o Only(Pending, About(c)))
        BY <1>5, <3>1, PrefixConcat
      <4> QED BY <3>2, <4>2, <4>3 DEF Story
    <3>4. CASE ~Ended(c)
      <4>1. c \in handlers
        BY <3>1, <3>4 DEF Held, Registered, Back, handlers
      <4>2. \A i \in DOMAIN left : left[i] \notin About(c)
        <5>1. \A x \in About(c) : x.id = c
          BY <3>1, AboutMessage
        <5> QED BY <1>4, <4>1, <5>1
      <4>3. Only(left, About(c)) = <<>>
        BY <1>4, <4>2, OnlyNone
      <4>4. Story(c)' = Story(c)
        <5>1. <<>> \o Only(next, About(c)) = Only(next, About(c))
          BY <1>5, <3>1, ConcatEmptySeq
        <5> QED BY <1>5, <3>1, <4>3, <5>1
      <4> QED BY <3>2, <3>4, <4>4
    <3> QED BY <3>3, <3>4
  <2> QED BY <2>1 DEF InOrder, Story, hubVars
<1> QED BY <1>6, <1>7, <1>8

\* The next frame: Pending is what the hub has sent, in two parts.
LEMMA ReceiveTells ==
  ASSUME StoryInv, CallInv', Receive
  PROVE  Stories' /\ Held' /\ InOrder'
<1> USE DEF StoryInv, CallInv
<1>1. PICK n \in DOMAIN wire :
        /\ Dispatch(SubSeq(wire, 1, n), stream_handlers)
        /\ wire' = SubSeq(wire, n + 1, Len(wire))
  BY DEF Receive
<1>2. at = "reading" /\ UNCHANGED <<phase, stream_handlers, hubVars, cut>>
  BY DEF Receive, callVars
<1> DEFINE frame == SubSeq(wire, 1, n)
           later == SubSeq(wire, n + 1, Len(wire))
<1>3. /\ frame \in Seq(Message) /\ later \in Seq(Message) /\ AboutBack(frame)
      /\ wire = frame \o later
  <2>1. wire \in Seq(Message) /\ AboutBack(wire)
    BY DEF TypeOK, AnswersComeLate
  <2>2. frame \in Seq(Message) /\ later \in Seq(Message) /\ AboutBack(frame)
    BY <2>1, PartsAreAboutBack
  <2>3. wire = frame \o later
    <3>1. 1 \in 1..Len(wire) + 1 /\ n \in 1 - 1..Len(wire) /\ Len(wire) \in n..Len(wire)
      BY <2>1
    <3>2. SubSeq(wire, 1, n) \o SubSeq(wire, n + 1, Len(wire)) = SubSeq(wire, 1, Len(wire))
      BY <2>1, <3>1, ConcatAdjacentSubSeq
    <3> QED BY <2>1, <3>2, SubSeqFull
  <2> QED BY <2>2, <2>3
<1>4. /\ \A i \in DOMAIN frame : \E j \in DOMAIN wire : frame[i] = wire[j]
      /\ \A i \in DOMAIN later : \E j \in DOMAIN wire : later[i] = wire[j]
  <2>1. wire \in Seq(Message) /\ n \in 1..Len(wire)
    BY DEF TypeOK
  <2>2. \A i \in DOMAIN frame : i \in DOMAIN wire /\ frame[i] = wire[i]
    BY <2>1
  <2>3. \A i \in DOMAIN later : n + i \in DOMAIN wire /\ later[i] = wire[n + i]
    BY <2>1
  <2> HIDE DEF frame, later
  <2> QED BY <2>2, <2>3
<1> HIDE DEF frame, later
<1>5. Addressed(frame) /\ Addressed(later)
  BY <1>4 DEF Addressed, Stories
<1>6. Pending = <<>> \o (frame \o later)
  <2>1. batch = <<>>
    BY <1>2 DEF TypeOK
  <2> QED BY <1>2, <1>3, <2>1 DEF Pending
<1>7. wire' = later /\ Dispatch(frame, stream_handlers') /\ <<>> \in Seq(Message)
  BY <1>1, <1>2 DEF frame, later
<1>8. \A c \in stream_handlers \ cut : ~Ended(c)
  BY <1>2 DEF Released
<1> DEFINE nothing == <<>>
<1>9. /\ nothing \in Seq(Message) /\ Pending = nothing \o (frame \o wire')
      /\ \A i \in DOMAIN nothing : nothing[i].id \notin stream_handlers'
  BY <1>6, <1>7
<1> HIDE DEF nothing
<1> QED BY <1>2, <1>3, <1>5, <1>7, <1>8, <1>9, MovesTell

\* What is left of a frame is addressed as the frame is.
LEMMA RestAddressed ==
  ASSUME TypeOK, AnswersComeLate, Stories, at # "reading"
  PROVE  /\ Head(batch) \in Message /\ Rest \in Seq(Message) /\ batch = One(Head(batch)) \o Rest
         /\ Addressed(Rest) /\ AboutBack(Rest)
         /\ \A c \in Calls : Head(batch) \in About(c) <=> Head(batch).id = c
         /\ Head(batch).id \in Calls => Head(batch).id \in Back
<1>1. batch \in Seq(Message) /\ batch # <<>> /\ Addressed(batch) /\ AboutBack(batch)
  BY DEF TypeOK, AnswersComeLate, Stories
<1>2. /\ Head(batch) = batch[1] /\ 1 \in DOMAIN batch /\ Rest \in Seq(Message)
      /\ \A i \in DOMAIN Rest : i + 1 \in DOMAIN batch /\ Rest[i] = batch[i + 1]
  BY <1>1 DEF Rest
<1>3. Addressed(Rest) /\ AboutBack(Rest)
  BY <1>1, <1>2 DEF Addressed, AboutBack
<1>4. batch = One(Head(batch)) \o Rest
  BY <1>1 DEF One, Rest
<1>5. Head(batch) \in Message /\ \A c \in Calls : Head(batch) \in About(c) <=> Head(batch).id = c
  BY <1>1, <1>2, AddressedAbout
<1>6. Head(batch).id \in Calls => Head(batch).id \in Back
  BY <1>1, <1>2 DEF AboutBack
<1> QED BY <1>2, <1>3, <1>4, <1>5, <1>6

\* A callback has returned, and the dispatcher goes on with its frame.
LEMMA ReturnsTell ==
  ASSUME StoryInv, CallInv',
         \/ Returns
         \/ ErrorReported /\ ~Completes(Head(batch).id, stream_handlers)
         \/ EndReturns
  PROVE  Stories' /\ Held' /\ InOrder'
<1> USE DEF StoryInv, CallInv
<1>1. /\ Dispatch(Rest, stream_handlers')
      /\ at # "reading"
      /\ UNCHANGED <<phase, wire, hubVars, cut>>
  BY DEF Returns, ErrorReported, EndReturns, callVars
<1>2. /\ Rest \in Seq(Message) /\ Addressed(Rest) /\ AboutBack(Rest)
      /\ batch = One(Head(batch)) \o Rest /\ Head(batch) \in Message
  BY <1>1, RestAddressed
<1>3. /\ stream_handlers' \subseteq stream_handlers
      /\ at \in {"complete", "error"} => stream_handlers' = stream_handlers \ {Head(batch).id}
      /\ at = "on_error" => Head(batch).id \notin stream_handlers'
      /\ at \notin {"complete", "error"} => stream_handlers' = stream_handlers
  BY DEF Returns, ErrorReported, EndReturns, Unregister, Completes, callVars
<1>4. \A c \in stream_handlers' \ cut : ~Ended(c)
  BY <1>3 DEF Released
<1>5. \A c \in stream_handlers \ stream_handlers' : Ended(c)
  BY <1>3 DEF DispatchInv, Entered
<1>6. wire' \in Seq(Message) /\ Addressed(wire')
  BY <1>1 DEF TypeOK, Stories
<1>7. PICK passed \in Seq(Message) :
        /\ Pending = passed \o (Rest \o wire')
        /\ \A i \in DOMAIN passed : passed[i].id \notin stream_handlers'
  <2>1. CASE at = "on_error"
    <3> DEFINE head == One(Head(batch))
    <3>1. head \in Seq(Message) /\ \A i \in DOMAIN head : head[i].id \notin stream_handlers'
      BY <1>2, <1>3, <2>1 DEF One
    <3>2. Pending = (head \o Rest) \o wire'
      BY <1>1, <1>2, <2>1 DEF Pending
    <3> HIDE DEF head
    <3>3. (head \o Rest) \o wire' = head \o (Rest \o wire')
      BY <1>2, <1>6, <3>1, ConcatAssociative
    <3> QED BY <3>1, <3>2, <3>3
  <2>2. CASE at # "on_error"
    <3> DEFINE nothing == <<>>
               all == Rest \o wire'
    <3>1. Pending = all /\ all \in Seq(Message)
      <4>1. Pending = all
        BY <1>1, <2>2 DEF Pending, Rest
      <4>2. all \in Seq(Message)
        BY <1>2, <1>6
      <4> QED BY <4>1, <4>2
    <3>2. nothing \o all = all /\ nothing \in Seq(Message) /\ DOMAIN nothing = {}
      BY <3>1
    <3> HIDE DEF nothing
    <3> QED BY <3>1, <3>2
  <2> QED BY <2>1, <2>2
<1> QED BY <1>1, <1>2, <1>3, <1>4, <1>5, <1>6, <1>7, MovesTell

\* on_error has returned, and the call whose end it was is still waiting.
LEMMA ErrorTells ==
  ASSUME StoryInv, CallInv',
         ErrorReported, Completes(Head(batch).id, stream_handlers)
  PROVE  /\ Stories' /\ Held' /\ InOrder'
         /\ Head(batch) \in Message /\ Head(batch).id \in stream_handlers
         /\ Head(batch).type = "failure"
         /\ Gives(Head(batch), stream_handlers)
<1> USE DEF StoryInv, CallInv
<1> DEFINE m == Head(batch)
           c == m.id
<1>1. /\ at = "on_error" /\ c \in stream_handlers
      /\ Enter(m, "complete")
      /\ UNCHANGED <<batch, phase, stream_handlers, wire, hubVars, cut>>
  <2>1. at = "on_error" /\ c \in stream_handlers /\ UNCHANGED <<phase, stream_handlers, wire, hubVars, cut>>
    BY DEF ErrorReported, Completes, callVars
  <2>2. Enter(m, "complete") /\ UNCHANGED batch
    BY DEF ErrorReported
  <2> QED BY <2>1, <2>2
<1>2. /\ m \in Message /\ Rest \in Seq(Message) /\ batch = One(m) \o Rest
      /\ \A d \in Calls : m \in About(d) <=> c = d
      /\ m.type = "failure" /\ c \in Calls /\ c \in Back
  <2>1. c \in Calls /\ m.type = "failure"
    BY <1>1 DEF TypeOK, DispatchInv, Entered
  <2> QED BY <1>1, <2>1, RestAddressed
<1> HIDE DEF m, c
<1>3. at' = "complete" /\ seen' = [seen EXCEPT ![c] = Append(@, m)]
  BY <1>1 DEF Enter, ToCall, c
<1>4. Gives(m, stream_handlers)
  BY <1>1, <1>2, <1>3 DEF Gives, c
<1>5. ASSUME NEW d \in Calls
      PROVE  /\ Ended(d) => Ended(d)'
             /\ d # c => seen'[d] = seen[d]
             /\ seen'[d] \in Seq(About(d))
             /\ seen'[d] = IF d = c THEN Append(seen[d], m) ELSE seen[d]
             /\ seen[d] \in Seq(Message)
  <2>1. /\ Ended(d) => Ended(d)'
        /\ seen'[d] \in Seq(About(d))
    BY <1>2, <1>4, Given DEF Stories, TypeOK
  <2>2. seen'[d] = IF d = c THEN Append(seen[d], m) ELSE seen[d]
    BY <1>3 DEF TypeOK
  <2> QED BY <2>1, <2>2 DEF TypeOK
<1>6. ASSUME NEW d \in Calls PROVE Story(d)' = Story(d)
  <2> DEFINE o == Only(Rest \o wire, About(d))
  <2>1. wire \in Seq(Message)
    BY DEF TypeOK
  <2>2. Pending = batch \o wire
    BY <1>1 DEF Pending
  <2>3. Pending' = Rest \o wire
    BY <1>1, <1>3 DEF Pending, Rest
  <2>4. /\ m \in About(d) => Only(batch \o wire, About(d)) = One(m) \o o
        /\ m \notin About(d) => Only(batch \o wire, About(d)) = o
    BY <1>2, <2>1, OnlyFirst
  <2>5. o \in Seq(Message)
    <3>1. Rest \o wire \in Seq(Message)
      BY <1>2, <2>1
    <3> QED BY <3>1, OnlyTyped
  <2>6. Story(d)' = seen'[d] \o o
    BY <2>3 DEF Story
  <2> HIDE DEF o
  <2>7. CASE d = c
    <3>1. Append(seen[d], m) \o o = seen[d] \o (One(m) \o o)
      <4>1. seen[d] \in Seq(Message) /\ m \in Message
        BY <1>2, <1>5
      <4> QED BY <2>5, <4>1, AppendConcat
    <3> QED BY <1>2, <1>5, <2>2, <2>4, <2>6, <2>7, <3>1 DEF Story
  <2>8. CASE d # c
    BY <1>2, <1>5, <2>2, <2>4, <2>6, <2>8 DEF Story
  <2> QED BY <2>7, <2>8
<1>7. Stories'
  <2>1. \A d \in Calls : Sound(Story(d)', answers'[d])
    BY <1>1, <1>6 DEF Stories, hubVars
  <2>2. \A d \in Calls : Sound(Story(d), answers[d])'
    BY <2>1 DEF Sound, HasEnd, IsEnd
  <2>3. Addressed(batch)' /\ Addressed(wire)'
    BY <1>1 DEF Addressed, Stories
  <2>4. ASSUME NEW d \in Calls \ Back' PROVE answers'[d] = <<>> /\ seen'[d] = <<>>
    <3>1. d \notin Back
      BY <1>1, <2>4 DEF Back
    <3> QED BY <1>1, <1>2, <1>5, <3>1 DEF Stories, hubVars
  <2> QED BY <1>5, <2>2, <2>3, <2>4 DEF Stories, About, Messages
<1>8. Held'
  <2>1. Registered' = Registered
    BY <1>1 DEF Registered
  <2> QED BY <1>1, <1>5, <2>1 DEF Held, Registered
<1>9. InOrder'
  <2>1. ASSUME NEW d \in asked \ cut
        PROVE  answers[d] = Story(d)' \/ (Ended(d)' /\ IsPrefix(seen'[d], answers[d]))
    <3>1. d \in Calls
      BY DEF TypeOK
    <3>2. answers[d] = Story(d) \/ (Ended(d) /\ IsPrefix(seen[d], answers[d]))
      BY DEF InOrder, Story
    <3>3. d = c => ~Ended(d)
      BY <1>1 DEF Released
    <3> QED BY <1>5, <1>6, <3>1, <3>2, <3>3
  <2> QED BY <1>1, <2>1 DEF InOrder, Story, hubVars
<1> QED BY <1>1, <1>2, <1>4, <1>7, <1>8, <1>9 DEF m, c

LEMMA StoryInvStep == StoryInv /\ [Next]_vars => StoryInv'
<1> SUFFICES ASSUME StoryInv, [Next]_vars PROVE StoryInv'
  OBVIOUS
<1>1. DispatchInv' /\ CallInv'
  BY DispatchInvStep, CallInvStep DEF StoryInv
<1>2. CASE UNCHANGED vars
  <2>1. /\ UNCHANGED <<phase, stream_handlers, wire, batch, at, asked, answers, seen, cut>>
        /\ Back' = Back /\ Registered' = Registered
    BY <1>2 DEF vars, callVars, dispatchVars, hubVars, givenVars, Back, Registered
  <2>2. \A c \in Calls : Story(c)' = Story(c) /\ (Ended(c)' <=> Ended(c))
    BY <2>1 DEF Story, Pending, Ended, IsEnd
  <2>3. \A c \in Calls : Sound(Story(c), answers[c])'
    <3>1. \A c \in Calls : Sound(Story(c)', answers'[c])
      BY <2>1, <2>2 DEF StoryInv, Stories
    <3> QED BY <3>1 DEF Sound, HasEnd, IsEnd
  <2>4. Stories' /\ Held'
    BY <2>1, <2>2, <2>3 DEF StoryInv, Stories, Held, Registered, Addressed, About, Messages
  <2>5. InOrder'
    BY <2>1, <2>2 DEF StoryInv, InOrder, Story, IsPrefix, CallInv, TypeOK
  <2> QED BY <1>1, <2>4, <2>5 DEF StoryInv
<1>3. CASE \E c \in Calls : BeginSend(c) \/ CallStep(c) \/ Subscribe(c)
  BY <1>1, <1>3, CallersTell DEF StoryInv
<1>4. ASSUME NEW c \in Calls, HubItem(c) PROVE StoryInv'
  <2> DEFINE m == [type |-> "item", id |-> c, item |-> Len(answers[c]) + 1]
  <2>1. Len(answers[c]) \in Nat /\ Len(answers[c]) < MaxItems /\ c \in Streams /\ ~Answered(c)
    BY <1>4 DEF HubItem, StoryInv, CallInv, TypeOK
  <2>2. m \in About(c)
    BY <2>1, ConnectionAssumption DEF About, Messages
  <2>3. Addressed(<<m>>)
    BY <2>1 DEF Addressed
  <2>4. Answer(c, m) /\ m.item = Len(answers[c]) + 1
    BY <1>4 DEF HubItem
  <2> HIDE DEF m
  <2> QED BY <1>1, <2>1, <2>2, <2>3, <2>4, AnswerTells DEF StoryInv
<1>5. ASSUME NEW c \in Calls, HubEnd(c) PROVE StoryInv'
  <2>1. PICK k \in EndKinds : (k = "cancel" => c \in Streams) /\ Answer(c, [type |-> k, id |-> c, item |-> 0])
    BY <1>5 DEF HubEnd
  <2> DEFINE m == [type |-> k, id |-> c, item |-> 0]
  <2>2. m \in About(c) /\ m.type # "item"
    BY ConnectionAssumption DEF About, Messages, Ends
  <2>3. Addressed(<<m>>)
    BY <2>1, ConnectionAssumption DEF Addressed, Ends
  <2>4. Answer(c, m)
    BY <2>1
  <2> HIDE DEF m
  <2> QED BY <1>1, <2>2, <2>3, <2>4, AnswerTells DEF StoryInv
<1>6. CASE HubInvokes \/ HubClose
  BY <1>1, <1>6, EventsTell DEF StoryInv
<1>7. CASE Lose \/ Raises \/ StopReturns
  BY <1>1, <1>7, CutsTell DEF StoryInv
<1>8. CASE Receive \/ Returns \/ ErrorReported \/ EndReturns
  BY <1>1, <1>8, ReceiveTells, ReturnsTell, ErrorTells DEF StoryInv
<1> QED BY <1>2, <1>3, <1>4, <1>5, <1>6, <1>7, <1>8 DEF Next, DispatchStep

LEMMA StoryInvHolds == Spec => []StoryInv
<1> QED BY StoryInit, StoryInvStep, PTL DEF Spec

(* What the hub answers on a connection that lives is handed to the        *)
(* callbacks of the call, all of it and in the order of the hub, up to the *)
(* first end; for any calls, frames, waits, raised exceptions and losses.  *)
THEOREM AnswersInOrder == Spec => []InOrder
<1>1. StoryInv => InOrder
  BY DEF StoryInv
<1> QED BY <1>1, StoryInvHolds, PTL
-----------------------------------------------------------------------------
(* Connection implements CallResults.                                      *)

ItemsOf(c) == Messages({"item"}, {c})
EndsOf(c) == Messages(Ends, {c})

\* The last item and the number of ends, after one more message.
LEMMA OneMore ==
  ASSUME NEW c \in Calls, NEW s \in Seq(Message), NEW m \in About(c)
  PROVE  /\ m.type = "item" =>
              /\ Only(Append(s, m), ItemsOf(c)) = Append(Only(s, ItemsOf(c)), m)
              /\ Only(Append(s, m), EndsOf(c)) = Only(s, EndsOf(c))
         /\ m.type # "item" =>
              /\ Only(Append(s, m), ItemsOf(c)) = Only(s, ItemsOf(c))
              /\ Only(Append(s, m), EndsOf(c)) = Append(Only(s, EndsOf(c)), m)
         /\ Only(s, ItemsOf(c)) \in Seq(Message) /\ Only(s, EndsOf(c)) \in Seq(Message)
<1>1. m \in Message
  BY AboutMessage
<1>2. /\ m.type = "item" => m \in ItemsOf(c) /\ m \notin EndsOf(c)
      /\ m.type # "item" => m \notin ItemsOf(c) /\ m \in EndsOf(c)
  BY DEF About, ItemsOf, EndsOf, Messages, Ends
<1>3. ASSUME NEW T
      PROVE  Only(Append(s, m), T) = IF m \in T THEN Append(Only(s, T), m) ELSE Only(s, T)
  BY <1>1, OnlyAppend
<1> QED BY <1>2, <1>3, OnlyTyped

\* What has been given to the callbacks is sound by itself.
SoundGiven == \A c \in Calls : Sound(seen[c], answers[c])

LEMMA GivenIsSound == StoryInv => SoundGiven
<1> SUFFICES ASSUME StoryInv, NEW c \in Calls PROVE Sound(seen[c], answers[c])
  BY DEF SoundGiven
<1> USE DEF StoryInv, CallInv
<1>1. Pending \in Seq(Message)
  BY PendingParts DEF Stories
<1>2. /\ seen[c] \in Seq(Message) /\ Only(Pending, About(c)) \in Seq(Message)
      /\ Sound(seen[c] \o Only(Pending, About(c)), answers[c])
  BY <1>1, StoryTyped DEF Stories, Story
<1>3. <<>> \o Only(Pending, About(c)) = Only(Pending, About(c)) /\ <<>> \in Seq(Message)
  BY <1>2, ConcatEmptySeq
<1> DEFINE o == Only(Pending, About(c))
           nothing == <<>>
<1>4. nothing \in Seq(Message) /\ Sound(seen[c] \o (nothing \o o), answers[c]) /\ o \in Seq(Message)
  BY <1>2, <1>3
<1> HIDE DEF o, nothing
<1> QED BY <1>2, <1>4, SoundParts

\* The mapped variables, call by call.
LEMMA Mapped ==
  ASSUME NEW c \in Calls
  PROVE  /\ LastItem[c] = IF Only(seen[c], ItemsOf(c)) = <<>> THEN 0
                          ELSE Last(Only(seen[c], ItemsOf(c))).item
         /\ EndsGiven[c] = Len(Only(seen[c], EndsOf(c)))
         /\ LastItem'[c] = IF Only(seen'[c], ItemsOf(c)) = <<>> THEN 0
                           ELSE Last(Only(seen'[c], ItemsOf(c))).item
         /\ EndsGiven'[c] = Len(Only(seen'[c], EndsOf(c)))
BY DEF LastItem, EndsGiven, ItemsOf, EndsOf, Messages

\* Nothing changes for the callbacks of a call that is given nothing.
LEMMA MappedAlike ==
  ASSUME NEW c \in Calls, seen'[c] = seen[c]
  PROVE  LastItem'[c] = LastItem[c] /\ EndsGiven'[c] = EndsGiven[c]
BY Mapped

LEMMA MappedSame ==
  ASSUME \A c \in Calls : seen'[c] = seen[c]
  PROVE  UNCHANGED <<LastItem, EndsGiven>>
BY DEF LastItem, EndsGiven, Messages

\* What a callback is given is an item, later than the last and before any
\* end, or an end; the first, unless a frame about the call was cut short.
LEMMA GivesMaps ==
  ASSUME StoryInv, SoundGiven', NEW m \in Message, Gives(m, stream_handlers'),
         stream_handlers' \subseteq stream_handlers,
         \A c \in stream_handlers' \ cut : ~Ended(c),
         UNCHANGED <<phase, cut>>
  PROVE  Results!Next
<1> USE DEF StoryInv, CallInv
<1> DEFINE c == m.id
           s == seen[c]
           k == Len(seen[c]) + 1
<1>1. /\ c \in Calls /\ c \in stream_handlers' /\ c \in Registered /\ m \in About(c)
      /\ seen' = [seen EXCEPT ![c] = Append(@, m)]
      /\ seen \in [Calls -> Seq(Message)]
  BY DEF Gives, Held, TypeOK
<1> HIDE DEF c
<1>2. \A d \in Calls : seen'[d] = IF d = c THEN Append(seen[d], m) ELSE seen[d]
  BY <1>1
<1>3. Sound(seen'[c], answers'[c])
  BY <1>1 DEF SoundGiven, Sound, HasEnd, IsEnd
<1>4. /\ s \in Seq(Message) /\ k \in Nat /\ DOMAIN s = 1..(k - 1)
      /\ seen'[c] = Append(s, m) /\ DOMAIN seen'[c] = 1..k
      /\ seen'[c][k] = m /\ \A i \in 1..(k - 1) : seen'[c][i] = s[i]
  <2>1. s \in Seq(Message) /\ seen'[c] = Append(s, m)
    BY <1>1, <1>2
  <2> QED BY <2>1
<1> HIDE DEF s, k
<1>5. Registered' = Registered /\ UNCHANGED cut
  BY DEF Registered
<1>6. /\ LastItem[c] = IF Only(s, ItemsOf(c)) = <<>> THEN 0 ELSE Last(Only(s, ItemsOf(c))).item
      /\ EndsGiven[c] = Len(Only(s, EndsOf(c)))
      /\ LastItem'[c] = IF Only(Append(s, m), ItemsOf(c)) = <<>> THEN 0
                        ELSE Last(Only(Append(s, m), ItemsOf(c))).item
      /\ EndsGiven'[c] = Len(Only(Append(s, m), EndsOf(c)))
  BY <1>1, <1>4, Mapped DEF s
<1>7. \A d \in Calls \ {c} : LastItem'[d] = LastItem[d] /\ EndsGiven'[d] = EndsGiven[d]
  BY <1>2, MappedAlike
<1>8. ASSUME \A i \in DOMAIN s : ~IsEnd(s[i]) PROVE EndsGiven[c] = 0
  <2>1. \A i \in DOMAIN s : s[i] \notin EndsOf(c)
    BY <1>8 DEF EndsOf, Messages, IsEnd
  <2>2. Only(s, EndsOf(c)) = <<>>
    BY <1>4, <2>1, OnlyNone
  <2> QED BY <1>6, <2>2
<1>9. CASE m.type = "item"
  <2>1. /\ Only(Append(s, m), ItemsOf(c)) = Append(Only(s, ItemsOf(c)), m)
        /\ Only(Append(s, m), EndsOf(c)) = Only(s, EndsOf(c))
        /\ Only(s, ItemsOf(c)) \in Seq(Message)
    BY <1>1, <1>4, <1>9, OneMore
  <2>2. LastItem'[c] = m.item /\ EndsGiven'[c] = EndsGiven[c]
    <3>1. ASSUME NEW t \in Seq(Message) PROVE Append(t, m) # <<>> /\ Last(Append(t, m)) = m
      BY DEF Last
    <3> QED BY <1>6, <2>1, <3>1
  <2>3. \A i \in DOMAIN s : s[i].type = "item" /\ s[i].item < m.item
    BY <1>3, <1>4, <1>9 DEF Sound
  <2>4. EndsGiven[c] = 0
    BY <1>8, <2>3 DEF IsEnd, Ends
  <2>5. m.item \in 1..MaxItems
    <3>1. m.item \in 1..Len(answers'[c])
      BY <1>3, <1>4, <1>9 DEF Sound
    <3> QED BY <3>1, ConnectionAssumption DEF Message, Messages
  <2>6. m.item > LastItem[c]
    <3> DEFINE items == Only(s, ItemsOf(c))
    <3>1. CASE items = <<>>
      BY <1>6, <2>5, <3>1
    <3>2. CASE items # <<>>
      <4>1. items \in Seq(Message) /\ Len(items) \in DOMAIN items /\ LastItem[c] = items[Len(items)].item
        BY <1>6, <2>1, <3>2 DEF Last
      <4>2. \A i \in DOMAIN items : \E j \in DOMAIN s : items[i] = s[j]
        BY <1>4, OnlyElements
      <4> HIDE DEF items
      <4>3. PICK j \in DOMAIN s : LastItem[c] = s[j].item
        BY <4>1, <4>2
      <4> QED BY <1>4, <2>3, <2>5, <4>3
    <3> QED BY <3>1, <3>2
  <2>7. /\ LastItem' = [LastItem EXCEPT ![c] = m.item]
        /\ EndsGiven' = EndsGiven
    BY <1>1, <1>7, <2>2 DEF LastItem, EndsGiven
  <2>8. Results!GiveItem(c)
    BY <1>1, <1>5, <2>4, <2>5, <2>6, <2>7 DEF Results!GiveItem, Results!Open
  <2> QED BY <1>1, <2>8 DEF Results!Next
<1>10. CASE m.type # "item"
  <2>1. /\ Only(Append(s, m), ItemsOf(c)) = Only(s, ItemsOf(c))
        /\ Only(Append(s, m), EndsOf(c)) = Append(Only(s, EndsOf(c)), m)
        /\ Only(s, EndsOf(c)) \in Seq(Message)
    BY <1>1, <1>4, <1>10, OneMore
  <2>2. LastItem'[c] = LastItem[c]
    BY <1>6, <2>1
  <2>3. EndsGiven'[c] = EndsGiven[c] + 1
    <3>1. ASSUME NEW t \in Seq(Message) PROVE Len(Append(t, m)) = Len(t) + 1
      OBVIOUS
    <3> QED BY <1>6, <2>1, <3>1
  <2>4. c \in cut \/ EndsGiven[c] = 0
    BY <1>1, <1>8 DEF Ended, s
  <2>5. /\ LastItem' = LastItem
        /\ EndsGiven' = [EndsGiven EXCEPT ![c] = @ + 1]
    BY <1>1, <1>7, <2>2, <2>3 DEF LastItem, EndsGiven
  <2>6. Results!GiveEnd(c)
    BY <1>1, <1>5, <2>4, <2>5 DEF Results!GiveEnd, Results!Open
  <2> QED BY <1>1, <2>6 DEF Results!Next
<1> QED BY <1>9, <1>10

LEMMA ResultsInit == Init => Results!Init
<1> SUFFICES ASSUME Init PROVE Results!Init
  OBVIOUS
<1>1. \A c \in Calls : seen[c] = <<>>
  BY DEF Init
<1>2. \A c \in Calls : LastItem[c] = 0 /\ EndsGiven[c] = 0
  <2>1. Len(<<>>) = 0
    OBVIOUS
  <2> QED BY <1>1, <2>1, Mapped, OnlyEmpty
<1>3. LastItem = [c \in Calls |-> 0] /\ EndsGiven = [c \in Calls |-> 0]
  BY <1>2 DEF LastItem, EndsGiven
<1>4. Registered = {} /\ cut = {}
  BY DEF Init, Registered
<1> QED BY <1>3, <1>4 DEF Results!Init

\* The dispatcher moves on: at most one callback is given something.
LEMMA MovesMap ==
  ASSUME StoryInv, SoundGiven', wire' \in Seq(Message),
         NEW messages \in Seq(Message), Addressed(messages),
         Dispatch(messages, stream_handlers'),
         stream_handlers' \subseteq stream_handlers,
         \A c \in stream_handlers' \ cut : ~Ended(c),
         UNCHANGED <<phase, cut>>
  PROVE  [Results!Next]_(Results!vars)
<1> USE DEF StoryInv, CallInv
<1>1. stream_handlers' \in SUBSET Calls /\ seen \in [Calls -> Seq(Message)]
  BY DEF TypeOK
<1>2. PICK skipped \in Seq(Message), rest \in Seq(Message) :
        Tells(messages, stream_handlers', skipped, rest)
  BY <1>1, DispatchTells
<1>3. CASE UNCHANGED seen
  <2>1. UNCHANGED <<LastItem, EndsGiven>>
    BY <1>3, MappedSame
  <2>2. Registered' = Registered
    BY DEF Registered
  <2> QED BY <2>1, <2>2 DEF Results!vars
<1>4. CASE \E i \in DOMAIN messages : Gives(messages[i], stream_handlers')
  <2>1. PICK i \in DOMAIN messages : Gives(messages[i], stream_handlers')
    BY <1>4
  <2>2. messages[i] \in Message
    OBVIOUS
  <2> QED BY <2>1, <2>2, GivesMaps
<1> QED BY <1>2, <1>3, <1>4 DEF Tells

\* Callers register, and all else they do is hidden.
LEMMA CallersMap ==
  ASSUME StoryInv, NEW c \in Calls, BeginSend(c) \/ CallStep(c) \/ Subscribe(c)
  PROVE  [Results!Next]_(Results!vars)
<1> USE DEF StoryInv, CallInv
<1>1. UNCHANGED <<LastItem, EndsGiven, cut>>
  <2>1. UNCHANGED <<seen, cut>>
    BY DEF BeginSend, CallStep, Subscribe, Register, Written, NotWritten, givenVars
  <2> QED BY <2>1, MappedSame
<1>2. phase \in [Calls -> Phases]
  BY DEF TypeOK
<1>3. CASE Register(c)
  <2>1. phase[c] \in {"idle", "token"} /\ phase' = [phase EXCEPT ![c] = "write"]
    BY <1>3 DEF Register, MayRegister
  <2>2. c \notin Registered /\ Registered' = Registered \cup {c}
    BY <1>2, <2>1 DEF Registered
  <2> QED BY <1>1, <2>2 DEF Results!Next, Results!Register
<1>4. CASE ~Register(c)
  <2>1. \E p \in Phases : /\ phase' = [phase EXCEPT ![c] = p]
                          /\ p \in {"idle", "token"} <=> phase[c] \in {"idle", "token"}
    BY <1>4 DEF BeginSend, CallStep, Subscribe, Written, NotWritten, Outcomes, Phases
  <2>2. Registered' = Registered
    BY <1>2, <2>1 DEF Registered
  <2> QED BY <1>1, <2>2 DEF Results!vars
<1> QED BY <1>3, <1>4

\* A raised exception or a loss breaks calls that are registered.
LEMMA CutsMap ==
  ASSUME StoryInv, Raises \/ Lose \/ StopReturns
  PROVE  [Results!Next]_(Results!vars)
<1> USE DEF StoryInv, CallInv
<1>1. UNCHANGED <<LastItem, EndsGiven>> /\ Registered' = Registered
  <2>1. UNCHANGED <<seen, phase>>
    BY DEF Raises, Lose, StopReturns, callVars, givenVars
  <2> QED BY <2>1, MappedSame DEF Registered
<1>2. cut' \in {cut, cut \cup InFrame}
  BY DEF Raises, Lose, StopReturns
<1>3. InFrame \subseteq Registered
  <2>1. \A m \in ToSet(batch) : m.id \in Calls => m.id \in Back
    BY DEF AnswersComeLate, AboutBack, ToSet
  <2> QED BY <2>1 DEF InFrame, Back, Registered
<1>4. CASE cut' = cut
  BY <1>1, <1>4 DEF Results!vars
<1>5. CASE cut' = cut \cup InFrame
  BY <1>1, <1>3, <1>5 DEF Results!Next, Results!Break
<1> QED BY <1>2, <1>4, <1>5

\* What the dispatcher goes on with, after a frame or a callback.
LEMMA DispatcherMaps ==
  ASSUME StoryInv, StoryInv', Receive \/ Returns \/ ErrorReported \/ EndReturns
  PROVE  [Results!Next]_(Results!vars)
<1> USE DEF StoryInv, CallInv
<1>1. SoundGiven' /\ wire' \in Seq(Message)
  <2>1. SoundGiven'
    BY GivenIsSound, PTL
  <2> QED BY <2>1 DEF TypeOK
<1>2. UNCHANGED <<phase, cut>>
  BY DEF Receive, Returns, ErrorReported, EndReturns, callVars
<1>3. CASE Receive
  <2>1. PICK n \in DOMAIN wire : Dispatch(SubSeq(wire, 1, n), stream_handlers)
    BY <1>3 DEF Receive
  <2> DEFINE frame == SubSeq(wire, 1, n)
  <2>2. frame \in Seq(Message)
    BY PartsAreAboutBack DEF TypeOK, AnswersComeLate
  <2>3. \A i \in DOMAIN frame : i \in DOMAIN wire /\ frame[i] = wire[i]
    <3>1. wire \in Seq(Message) /\ n \in 1..Len(wire)
      BY DEF TypeOK
    <3> QED BY <3>1
  <2>4. stream_handlers' = stream_handlers /\ \A c \in stream_handlers \ cut : ~Ended(c)
    BY <1>3 DEF Receive, callVars, Released
  <2>5. Dispatch(frame, stream_handlers')
    BY <2>1, <2>4
  <2> HIDE DEF frame
  <2>6. Addressed(frame)
    BY <2>3 DEF Addressed, Stories
  <2> QED BY <1>1, <1>2, <2>2, <2>4, <2>5, <2>6, MovesMap
<1>4. CASE ErrorReported /\ Completes(Head(batch).id, stream_handlers)
  <2>1. /\ Head(batch) \in Message /\ Gives(Head(batch), stream_handlers)
        /\ stream_handlers' = stream_handlers /\ at = "on_error"
    BY <1>4, ErrorTells DEF ErrorReported, callVars
  <2>2. \A c \in stream_handlers \ cut : ~Ended(c)
    BY <2>1 DEF Released
  <2> QED BY <1>1, <1>2, <2>1, <2>2, GivesMaps
<1>5. CASE \/ Returns \/ EndReturns
           \/ ErrorReported /\ ~Completes(Head(batch).id, stream_handlers)
  <2>1. at # "reading" /\ Dispatch(Rest, stream_handlers')
    BY <1>5 DEF Returns, EndReturns, ErrorReported, callVars
  <2>2. Rest \in Seq(Message) /\ Addressed(Rest)
    BY <2>1, RestAddressed
  <2>3. /\ stream_handlers' \subseteq stream_handlers
        /\ \A c \in stream_handlers' \ cut : ~Ended(c)
    BY <1>5 DEF Returns, EndReturns, ErrorReported, callVars, Unregister, Released
  <2> QED BY <1>1, <1>2, <2>1, <2>2, <2>3, MovesMap
<1> QED BY <1>3, <1>4, <1>5

LEMMA ConnectionStepMaps ==
  ASSUME StoryInv, StoryInv', [Next]_vars
  PROVE  [Results!Next]_(Results!vars)
<1>1. CASE UNCHANGED vars
  <2>1. UNCHANGED <<phase, seen, cut>>
    BY <1>1 DEF vars, callVars, givenVars
  <2>2. UNCHANGED <<LastItem, EndsGiven>> /\ Registered' = Registered
    BY <2>1, MappedSame DEF Registered
  <2> QED BY <2>1, <2>2 DEF Results!vars
<1>2. CASE \E c \in Calls : BeginSend(c) \/ CallStep(c) \/ Subscribe(c)
  BY <1>2, CallersMap
<1>3. CASE (\E c \in Calls : HubItem(c) \/ HubEnd(c)) \/ HubInvokes \/ HubClose
  <2>1. UNCHANGED <<phase, seen, cut>>
    BY <1>3 DEF HubItem, HubEnd, Answer, HubInvokes, HubClose, callVars, givenVars
  <2>2. UNCHANGED <<LastItem, EndsGiven>> /\ Registered' = Registered
    BY <2>1, MappedSame DEF Registered
  <2> QED BY <2>1, <2>2 DEF Results!vars
<1>4. CASE Lose \/ Raises \/ StopReturns
  BY <1>4, CutsMap
<1>5. CASE Receive \/ Returns \/ ErrorReported \/ EndReturns
  BY <1>5, DispatcherMaps
<1> QED BY <1>1, <1>2, <1>3, <1>4, <1>5 DEF Next, DispatchStep

(* Every caller gets its items in order, then at most one end and nothing  *)
(* after it, for any calls, frames, repeated ends, waits and losses; only  *)
(* a call whose frame was cut short can be given an end again.             *)
THEOREM ConnectionImplementsCallResults == Spec => ImplementsCallResults
<1>1. StoryInv /\ StoryInv' /\ [Next]_vars => [Results!Next]_(Results!vars)
  BY ConnectionStepMaps
<1> QED BY <1>1, ResultsInit, StoryInvHolds, PTL DEF Spec, ImplementsCallResults, Results!Spec
===============================================================================
