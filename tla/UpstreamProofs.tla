--------------------------- MODULE UpstreamProofs ---------------------------
(***************************************************************************)
(* The upstream of a hub keeps what Feed promises, for any broker places,  *)
(* statuses, changes and records, however sockets end, places expire,      *)
(* subscriptions are refused and the hub is dropped.                       *)
(*                                                                         *)
(* What makes it inductive is the course the task takes over the frames    *)
(* that are on their way: from what it has heard (Now), frame by frame     *)
(* (Hears), each frame finds a state it may be applied to (Legal), and     *)
(* after each the task knows of its place what a resume needs (Sound): a   *)
(* socket may end after any of them.  Behind the last frame stands what    *)
(* the broker may do next (Ready).                                         *)
(***************************************************************************)
EXTENDS Upstream, SequenceTheorems, TLAPS

(* What the task has heard. *)
Now ==
    [pos |-> pos, told |-> told, forgotten |-> forgotten, started |-> started,
     seq |-> seq, answered |-> answered]

Heard == [pos : Nat, told : BOOLEAN, forgotten : BOOLEAN, started : BOOLEAN,
          seq : Nat, answered : BOOLEAN]

Warned(x) == x.told \/ x.forgotten

(* The frames of a broker. *)
Signs == [op : {"x-welcome", "x-gap", "x-closing"}, id : {0}, n : {0}]
Notes == [op : {"x-notification"}, id : Nat, n : Nat]
ResumeResults == [op : {"x-result"}, id : {"resume"}, n : {200, 404}]
UpResults == [op : {"x-result"}, id : {"up"}, n : Statuses, base : Nat]
Frames == Signs \cup Notes \cup ResumeResults \cup UpResults

(* The answer makes the task believe that it listens. *)
Accepts(x, f) == Success(f.n) /\ (x.started \/ f.id = "up")

(* The task after one more frame. *)
HearsNote(x, f) ==
    [pos |-> IF x.started THEN f.id ELSE x.pos, told |-> ~x.started /\ x.told,
     forgotten |-> ~x.started /\ x.forgotten, started |-> x.started,
     seq |-> f.n, answered |-> x.answered]

HearsGap(x) ==
    [pos |-> x.pos, told |-> TRUE, forgotten |-> x.forgotten, started |-> x.started,
     seq |-> x.seq, answered |-> x.answered]

HearsResume(x, f) ==
    IF Accepts(x, f)
    THEN [pos |-> x.pos, told |-> x.told, forgotten |-> x.forgotten, started |-> x.started,
          seq |-> x.seq, answered |-> TRUE]
    ELSE [pos |-> x.pos, told |-> TRUE, forgotten |-> x.forgotten, started |-> x.started,
          seq |-> 0, answered |-> x.answered]

HearsUp(x, f) ==
    IF Accepts(x, f)
    THEN [pos |-> IF x.started THEN x.pos ELSE f.base, told |-> x.started /\ x.told,
          forgotten |-> x.forgotten, started |-> TRUE, seq |-> x.seq, answered |-> TRUE]
    ELSE [pos |-> x.pos, told |-> TRUE, forgotten |-> x.forgotten, started |-> FALSE,
          seq |-> x.seq, answered |-> FALSE]

Hears(x, f) ==
    IF f.op = "x-notification" THEN HearsNote(x, f)
    ELSE IF f.op = "x-gap" THEN HearsGap(x)
    ELSE IF f.op = "x-result" /\ f.id = "resume" THEN HearsResume(x, f)
    ELSE IF f.op = "x-result" THEN HearsUp(x, f)
    ELSE x

(* A frame comes when it may. *)
Legal(x, f) ==
    /\ f.op = "x-notification" /\ x.started =>
         f.id > x.pos /\ (f.id = x.pos + 1 \/ Warned(x))
    /\ f.op = "x-result" /\ f.id = "up" /\ Success(f.n) =>
         IF x.started THEN Warned(x) ELSE f.base >= x.pos

(* What holds whenever the task has heard x, whose place is pl.              *)
Sound(x, pl, n) ==
    /\ x.pos <= n
    /\ ~x.started => x.told
    /\ x.answered => x.started
    /\ pl.subscribed =>
         /\ pl.base + x.seq >= x.pos
         /\ x.answered => pl.base + x.seq = x.pos \/ Warned(x)
         /\ ~x.started => pl.base >= x.pos
    /\ x.answered /\ pl.st # "free" => pl.subscribed \/ x.forgotten

(* A resume of `from`, or a subscription, goes on where the task is.         *)
Continues(x, from, places) ==
    IF from = Nowhere THEN x.started => Warned(x)
    ELSE /\ from.at \in Places
         /\ ~x.started => x.forgotten
         /\ LET pl == places[from.at]
            IN pl.st = "held" =>
                 IF pl.subscribed
                 THEN /\ pl.base + from.seq >= x.pos
                      /\ pl.base + from.seq = x.pos \/ Warned(x)
                      /\ ~x.started => pl.base >= x.pos
                 ELSE x.forgotten

(* What the broker may add, once x was heard. *)
Ready(x, pl) ==
    pl.subscribed =>
        /\ pl.next > pl.base /\ pl.next > x.pos
        /\ x.started => pl.next = x.pos + 1 \/ Warned(x)

(* What the message on its way to the broker, or to be sent after the        *)
(* welcome, needs of the state it is answered in.                            *)
Asks(x, wire, asked, pl, from, places) ==
    /\ wire # <<>> /\ wire[1].op = "x-welcome" =>
         ~pl.subscribed /\ x.seq = from.seq /\ Continues(x, from, places)
    /\ asked # <<>> =>
         \/ /\ asked[1] = Frame("x-resume", from.at, from.seq) /\ from # Nowhere
            /\ ~pl.subscribed /\ x.seq = from.seq /\ Continues(x, from, places) /\ wire = <<>>
         \/ /\ asked[1] = Frame("x-subscribe", NoPlace, 0)
            /\ x.started => Warned(x)
            /\ pl.subscribed => ~x.started /\ x.forgotten
            /\ x.seq = 0 \/ x.forgotten

IsUp(f) == f.op = "x-result" /\ f.id = "up"

(* The course over the frames on their way. *)
Course(c, wire, x, pl, n, resumes) ==
    /\ c \in [0..Len(wire) -> Heard]
    /\ c[0] = x
    /\ \A i \in 1..Len(wire) : Legal(c[i - 1], wire[i]) /\ c[i] = Hears(c[i - 1], wire[i])
    /\ \A i \in 0..Len(wire) : Sound(c[i], pl, n)
    /\ \A i \in 0..Len(wire) : c[i].answered =>
         x.answered \/ \E j \in 1..i : wire[j].op = "x-result" /\ Accepts(c[j - 1], wire[j])
    /\ \A i \in 0..Len(wire) : c[i].started => x.started \/ \E j \in 1..i : IsUp(wire[j])
    /\ \A i \in 0..Len(wire) : resumes /\ ~c[i].started =>
         c[i].forgotten \/ \E j \in 1..i : IsUp(wire[j]) /\ ~Success(wire[j].n)

(* One question at a time is on its way, or its answer. *)
OneQuestion(wire, asked, answers, pl, from, sent) ==
    /\ ~sent => ~answers /\ asked = <<>> /\ \A i \in 1..Len(wire) : wire[i].op # "x-result"
    /\ \A i \in 1..Len(wire) : wire[i].op = "x-welcome" =>
         /\ i = 1 /\ ~sent
         /\ pl.st = "open" => Len(wire) = 1
    /\ asked # <<>> => /\ Len(asked) = 1 /\ pl.st = "open" /\ ~answers
                       /\ \A i \in 1..Len(wire) : wire[i].op # "x-result"
    /\ \A i, j \in 1..Len(wire) : wire[i].op = "x-result" /\ wire[j].op = "x-result" => i = j
    /\ \A i \in 1..Len(wire) : wire[i].op = "x-result" => ~answers
    /\ \A i \in 1..Len(wire) : wire[i].op = "x-result" /\ wire[i].id = "resume" =>
         /\ from # Nowhere
         /\ wire[i].n = 404 => ~pl.subscribed /\ (i = Len(wire) \/ pl.st # "open")

(* A connection, from what the task has heard. *)
Connection(x, wire, asked, places, s, n, from, sent) ==
    /\ \E c : /\ Course(c, wire, x, places[s], n, from # Nowhere)
              /\ places[s].st = "open" =>
                   /\ Ready(c[Len(wire)], places[s])
                   /\ Asks(c[Len(wire)], wire, asked, places[s], from, places)
    /\ OneQuestion(wire, asked, x.answered, places[s], from, sent)

PlaceType == [st : {"free", "open", "held"}, subscribed : BOOLEAN, next : Nat, base : Nat]

Points == [at : Places \cup {NoPlace}, seq : Nat]

Messages == [op : {"x-subscribe", "x-resume"}, id : Places \cup {NoPlace}, n : Nat]

BrokerTypes ==
    /\ log \in 0..MaxChanges
    /\ place \in [Places -> PlaceType]
    /\ \A p \in Places : place[p].st = "free" => ~place[p].subscribed
    /\ socket \in Places \cup {NoPlace}
    /\ fromBroker \in Seq(Frames) /\ toBroker \in Seq(Messages)

TaskTypes ==
    /\ pc \in {"top", "connecting", "sleep", "run", "hold", "hold_look", "stopped"}
    /\ pc = "run" <=> socket # NoPlace
    /\ resume \in Points /\ (resume # Nowhere => resume.at \in Places)
    /\ first \in Points /\ (first # Nowhere => first.at \in Places \ {socket})
    /\ name \in {NoPlace, socket}
    /\ Now \in Heard
    /\ sent_first \in BOOLEAN
    /\ pc = "run" => (sent_first <=> name = socket)

OtherTypes ==
    /\ refused \in Statuses \cup {0}
    /\ record \in Records
    /\ clients \in {"some", "none", "lingered"}
    /\ registered \in BOOLEAN

(* Between two connections of a registered hub, what there is to resume.     *)
Between ==
    pc # "run" =>
        /\ ~answered /\ pos <= log /\ (~started => told)
        /\ registered \/ pc = "connecting" => Continues(Now, resume, place)

Runs ==
    pc = "run" => Connection(Now, fromBroker, toBroker, place, socket, log, first, sent_first)

UpstreamInv == BrokerTypes /\ TaskTypes /\ OtherTypes /\ Between /\ Runs

-----------------------------------------------------------------------------
(* The course. *)

(* A frame is heard. *)
LEMMA HearsType ==
    ASSUME NEW x \in Heard, NEW f \in Frames
    PROVE  Hears(x, f) \in Heard
<1>1. StatusAssumption
  BY StatusAssumption
<1>2. CASE f \in Signs
  BY <1>2 DEF Hears, HearsGap, Signs, Heard
<1>3. CASE f \in Notes
  BY <1>3 DEF Hears, HearsNote, Notes, Heard
<1>4. CASE f \in ResumeResults
  BY <1>4 DEF Hears, HearsResume, ResumeResults, Heard
<1>5. CASE f \in UpResults
  BY <1>5 DEF Hears, HearsUp, UpResults, Heard
<1> QED BY <1>2, <1>3, <1>4, <1>5 DEF Frames

(* What each frame is heard as. *)
LEMMA HeardAs ==
    ASSUME NEW x, NEW f \in Frames
    PROVE  /\ f \in Signs => /\ f.op # "x-result" /\ f.op # "x-notification"
                             /\ Hears(x, f) = IF f.op = "x-gap" THEN HearsGap(x) ELSE x
           /\ f \in Notes => f.op = "x-notification" /\ Hears(x, f) = HearsNote(x, f)
           /\ f \in ResumeResults => /\ f.op = "x-result" /\ f.id = "resume" /\ ~IsUp(f)
                                     /\ Hears(x, f) = HearsResume(x, f)
           /\ f \in UpResults => IsUp(f) /\ Hears(x, f) = HearsUp(x, f)
<1>1. f \in Signs => /\ f.op # "x-result" /\ f.op # "x-notification"
                     /\ Hears(x, f) = IF f.op = "x-gap" THEN HearsGap(x) ELSE x
  BY DEF Hears, Signs
<1>2. f \in Notes => f.op = "x-notification" /\ Hears(x, f) = HearsNote(x, f)
  BY DEF Hears, Notes
<1>3. f \in ResumeResults => /\ f.op = "x-result" /\ f.id = "resume" /\ ~IsUp(f)
                             /\ Hears(x, f) = HearsResume(x, f)
  BY DEF Hears, ResumeResults, IsUp
<1>4. f \in UpResults => IsUp(f) /\ Hears(x, f) = HearsUp(x, f)
  BY DEF Hears, UpResults, IsUp
<1> QED BY <1>1, <1>2, <1>3, <1>4

(* What a frame does to a belief in the answer, and to a start. *)
LEMMA HearsFacts ==
    ASSUME NEW x \in Heard, NEW f \in Frames
    PROVE  /\ f.op # "x-result" => /\ Hears(x, f).answered = x.answered
                                   /\ Hears(x, f).started = x.started
           /\ ~IsUp(f) => Hears(x, f).started = x.started
           /\ ~IsUp(f) /\ ~x.started => Hears(x, f).forgotten = x.forgotten
           /\ ~IsUp(f) /\ x.answered => Hears(x, f).answered
           /\ f.op = "x-result" /\ Accepts(x, f) => Hears(x, f).answered
           /\ f.op = "x-result" /\ ~Accepts(x, f) /\ ~x.answered => ~Hears(x, f).answered
           /\ IsUp(f) => /\ Hears(x, f).started <=> Success(f.n)
                         /\ Hears(x, f).answered <=> Success(f.n)
                         /\ Hears(x, f).forgotten = x.forgotten
<1> USE HeardAs
<1>1. CASE f \in Signs
  <2>1. f.op # "x-result" /\ ~IsUp(f) /\ Hears(x, f) = IF f.op = "x-gap" THEN HearsGap(x) ELSE x
    BY <1>1 DEF IsUp
  <2> QED BY <2>1 DEF HearsGap
<1>2. CASE f \in Notes
  <2>1. f.op # "x-result" /\ ~IsUp(f) /\ Hears(x, f) = HearsNote(x, f)
    BY <1>2 DEF IsUp
  <2>2. x.forgotten \in BOOLEAN
    BY DEF Heard
  <2> QED BY <2>1, <2>2 DEF HearsNote
<1>3. CASE f \in ResumeResults
  <2>1. f.op = "x-result" /\ ~IsUp(f) /\ Hears(x, f) = HearsResume(x, f)
    BY <1>3
  <2>2. CASE Accepts(x, f)
    BY <2>1, <2>2 DEF HearsResume
  <2>3. CASE ~Accepts(x, f)
    BY <2>1, <2>3 DEF HearsResume
  <2> QED BY <2>2, <2>3
<1>4. CASE f \in UpResults
  <2>1. IsUp(f) /\ f.op = "x-result" /\ Hears(x, f) = HearsUp(x, f)
    BY <1>4 DEF IsUp
  <2>2. Accepts(x, f) <=> Success(f.n)
    BY <2>1 DEF Accepts, IsUp
  <2>3. CASE Accepts(x, f)
    BY <2>1, <2>2, <2>3 DEF HearsUp
  <2>4. CASE ~Accepts(x, f)
    BY <2>1, <2>2, <2>4 DEF HearsUp
  <2> QED BY <2>3, <2>4
<1> QED BY <1>1, <1>2, <1>3, <1>4 DEF Frames

(* A course is one over any place and view it is sound for. *)
LEMMA CourseElsewhere ==
    ASSUME NEW c, NEW wire, NEW x, NEW pl, NEW n, NEW resumes, Course(c, wire, x, pl, n, resumes),
           NEW pm, NEW m, \A i \in 0..Len(wire) : Sound(c[i], pm, m)
    PROVE  Course(c, wire, x, pm, m, resumes)
  BY DEF Course

(* The task hears the first frame of the wire. *)
LEMMA CourseGoesOn ==
    ASSUME NEW wire \in Seq(Frames), wire # <<>>, NEW c, NEW x, NEW pl, NEW n, NEW resumes,
           Course(c, wire, x, pl, n, resumes), ~(IsUp(wire[1]) /\ ~Success(wire[1].n))
    PROVE  /\ x \in Heard /\ Legal(x, wire[1]) /\ Sound(x, pl, n)
           /\ Len(Tail(wire)) = Len(wire) - 1 /\ Tail(wire) \in Seq(Frames)
           /\ Len(wire) \in Nat \ {0} /\ \A i \in 1..Len(wire) : wire[i] \in Frames
           /\ \A i \in 1..(Len(wire) - 1) : Tail(wire)[i] = wire[i + 1]
           /\ \E d : /\ Course(d, Tail(wire), Hears(x, wire[1]), pl, n, resumes)
                     /\ d[Len(Tail(wire))] = c[Len(wire)]
<1> DEFINE w == Tail(wire)
           L == Len(wire)
           y == Hears(x, wire[1])
           d == [i \in 0..(L - 1) |-> c[i + 1]]
<1>1. /\ L \in Nat \ {0} /\ w \in Seq(Frames) /\ Len(w) = L - 1
      /\ \A i \in 1..(L - 1) : w[i] = wire[i + 1]
      /\ \A i \in 1..L : wire[i] \in Frames
  BY EmptySeq, LenProperties, HeadTailProperties, ElementOfSeq
<1> HIDE DEF w, L
<1>2. /\ c \in [0..L -> Heard] /\ c[0] = x /\ \A i \in 1..L : c[i - 1] \in Heard
  <2>1. c \in [0..L -> Heard] /\ c[0] = x
    BY DEF Course, L
  <2>2. \A i \in 1..L : i - 1 \in 0..L
    BY <1>1
  <2> QED BY <2>1, <2>2
<1>3. x \in Heard /\ Legal(x, wire[1]) /\ c[1] = y /\ Sound(x, pl, n) /\ y \in Heard
  <2>1. 1 \in 1..L /\ 0 \in 0..L /\ 1 - 1 = 0
    BY <1>1
  <2>2. Legal(c[1 - 1], wire[1]) /\ c[1] = Hears(c[1 - 1], wire[1])
    BY <2>1 DEF Course, L
  <2>3. Sound(c[0], pl, n)
    BY <2>1 DEF Course, L
  <2>4. c[0] = x /\ c[1] \in Heard /\ c[0] \in Heard
    BY <1>1, <1>2
  <2> QED BY <2>1, <2>2, <2>3, <2>4
<1>4. /\ \A i \in 0..(L - 1) : i + 1 \in 1..L /\ i + 1 \in 0..L /\ d[i] = c[i + 1]
      /\ \A i \in 1..(L - 1) : i - 1 \in 0..(L - 1) /\ d[i - 1] = c[i] /\ (i + 1) - 1 = i
      /\ d \in [0..(L - 1) -> Heard]
      /\ \A j \in 1..L : j = 1 \/ j - 1 \in 1..(L - 1)
  <2>1. \A i \in 0..(L - 1) : i + 1 \in 1..L /\ i + 1 \in 0..L
    BY <1>1
  <2>2. \A i \in 1..(L - 1) : i - 1 \in 0..(L - 1) /\ (i - 1) + 1 = i /\ (i + 1) - 1 = i
    BY <1>1
  <2>3. \A j \in 1..L : j = 1 \/ j - 1 \in 1..(L - 1)
    BY <1>1
  <2> QED BY <1>2, <2>1, <2>2, <2>3
<1>5. d[0] = y /\ d[L - 1] = c[L]
  <2>1. 0 \in 0..(L - 1) /\ L - 1 \in 0..(L - 1) /\ 0 + 1 = 1 /\ (L - 1) + 1 = L
    BY <1>1
  <2> QED BY <1>3, <2>1
<1> HIDE DEF d, y
<1>6. \A i \in 1..(L - 1) : Legal(d[i - 1], w[i]) /\ d[i] = Hears(d[i - 1], w[i])
  <2> TAKE i \in 1..(L - 1)
  <2>1. i + 1 \in 1..L /\ i \in 0..(L - 1) /\ (i + 1) - 1 = i
    BY <1>1
  <2>2. Legal(c[(i + 1) - 1], wire[i + 1]) /\ c[i + 1] = Hears(c[(i + 1) - 1], wire[i + 1])
    BY <2>1 DEF Course, L
  <2> QED BY <1>1, <1>4, <2>1, <2>2
<1>7. \A i \in 0..(L - 1) : Sound(d[i], pl, n)
  BY <1>4 DEF Course, L
<1>8. \A i \in 0..(L - 1) : d[i].answered =>
        y.answered \/ \E j \in 1..i : w[j].op = "x-result" /\ Accepts(d[j - 1], w[j])
  <2> SUFFICES ASSUME NEW i \in 0..(L - 1), d[i].answered, ~y.answered
               PROVE  \E j \in 1..i : w[j].op = "x-result" /\ Accepts(d[j - 1], w[j])
    OBVIOUS
  <2>1. i + 1 \in 0..L /\ c[i + 1].answered
    BY <1>4
  <2>2. ~x.answered
    <3>1. wire[1] \in Frames
      BY <1>1
    <3>2. IsUp(wire[1]) => y.answered
      BY <1>3, <3>1, HearsFacts DEF y
    <3> QED BY <1>3, <3>1, <3>2, HearsFacts DEF y
  <2>3. PICK j \in 1..(i + 1) : wire[j].op = "x-result" /\ Accepts(c[j - 1], wire[j])
    BY <2>1, <2>2 DEF Course, L
  <2>4. j # 1
    <3>1. 1 \in 1..L /\ (j = 1 => c[j - 1] = x)
      BY <1>1, <1>2
    <3> QED BY <1>1, <1>3, <2>3, <3>1, HearsFacts DEF y
  <2>5. j - 1 \in 1..i /\ j - 1 \in 1..(L - 1) /\ (j - 1) + 1 = j
    BY <1>1, <2>4
  <2>6. w[j - 1] = wire[j] /\ d[(j - 1) - 1] = c[j - 1]
    BY <1>1, <1>4, <2>5
  <2> QED BY <2>3, <2>5, <2>6
<1>9. \A i \in 0..(L - 1) : d[i].started => y.started \/ \E j \in 1..i : IsUp(w[j])
  <2> SUFFICES ASSUME NEW i \in 0..(L - 1), d[i].started, ~y.started
               PROVE  \E j \in 1..i : IsUp(w[j])
    OBVIOUS
  <2>1. i + 1 \in 0..L /\ c[i + 1].started
    BY <1>4
  <2>2. ~IsUp(wire[1]) /\ ~x.started
    BY <1>1, <1>3, HearsFacts DEF y
  <2>3. PICK j \in 1..(i + 1) : IsUp(wire[j])
    BY <2>1, <2>2 DEF Course, L
  <2>4. j - 1 \in 1..i /\ j - 1 \in 1..(L - 1) /\ (j - 1) + 1 = j
    BY <1>1, <2>2, <2>3
  <2>5. w[j - 1] = wire[j]
    BY <1>1, <2>4
  <2> QED BY <2>3, <2>4, <2>5
<1>10. \A i \in 0..(L - 1) : resumes /\ ~d[i].started =>
         d[i].forgotten \/ \E j \in 1..i : IsUp(w[j]) /\ ~Success(w[j].n)
  <2> SUFFICES ASSUME NEW i \in 0..(L - 1), resumes, ~d[i].started, ~d[i].forgotten
               PROVE  \E j \in 1..i : IsUp(w[j]) /\ ~Success(w[j].n)
    OBVIOUS
  <2>1. i + 1 \in 0..L /\ ~c[i + 1].started /\ ~c[i + 1].forgotten
    BY <1>4
  <2>2. PICK j \in 1..(i + 1) : IsUp(wire[j]) /\ ~Success(wire[j].n)
    BY <2>1 DEF Course, L
  <2>3. j - 1 \in 1..i /\ j - 1 \in 1..(L - 1) /\ (j - 1) + 1 = j
    BY <1>1, <2>2
  <2>4. w[j - 1] = wire[j]
    BY <1>1, <2>3
  <2> QED BY <2>2, <2>3, <2>4
<1>11. Course(d, w, y, pl, n, resumes) /\ d[Len(w)] = c[L]
  BY <1>1, <1>4, <1>5, <1>6, <1>7, <1>8, <1>9, <1>10 DEF Course
<1> QED BY <1>1, <1>3, <1>11 DEF w, L, y

(* The broker sends one more frame, or its place changes under those on      *)
(* their way.                                                                *)
LEMMA CourseGrows ==
    ASSUME NEW wire \in Seq(Frames), NEW f \in Frames, NEW c, NEW x, NEW pl, NEW n, NEW resumes,
           Course(c, wire, x, pl, n, resumes), Legal(c[Len(wire)], f),
           NEW pm, NEW m, \A i \in 0..Len(wire) : Sound(c[i], pm, m),
           Sound(Hears(c[Len(wire)], f), pm, m)
    PROVE  /\ Append(wire, f) \in Seq(Frames) /\ Len(Append(wire, f)) = Len(wire) + 1
           /\ Append(wire, f)[Len(wire) + 1] = f
           /\ \A i \in 1..Len(wire) : Append(wire, f)[i] = wire[i]
           /\ \E d : /\ Course(d, Append(wire, f), x, pm, m, resumes)
                     /\ d[Len(wire) + 1] = Hears(c[Len(wire)], f)
<1> DEFINE w == Append(wire, f)
           L == Len(wire)
           y == Hears(c[L], f)
           d == [i \in 0..(L + 1) |-> IF i = L + 1 THEN y ELSE c[i]]
<1>1. /\ L \in Nat /\ w \in Seq(Frames) /\ Len(w) = L + 1 /\ w[L + 1] = f
      /\ \A i \in 1..L : w[i] = wire[i]
  BY LenProperties, AppendProperties
<1>2. c \in [0..L -> Heard] /\ c[0] = x /\ L \in 0..L /\ c[L] \in Heard
  BY <1>1 DEF Course
<1>3. y \in Heard
  BY <1>2, HearsType
<1> HIDE DEF w, L, y
<1>4. /\ d \in [0..(L + 1) -> Heard] /\ d[L + 1] = y /\ d[0] = x
      /\ \A i \in 0..L : d[i] = c[i]
      /\ \A i \in 1..L : i - 1 \in 0..L /\ d[i - 1] = c[i - 1]
      /\ d[(L + 1) - 1] = c[L]
  BY <1>1, <1>2, <1>3
<1>5. \A i \in 0..(L + 1) : i \in 0..L \/ i = L + 1
  BY <1>1
<1> HIDE DEF d
<1>6. \A i \in 1..(L + 1) : Legal(d[i - 1], w[i]) /\ d[i] = Hears(d[i - 1], w[i])
  <2> TAKE i \in 1..(L + 1)
  <2>1. CASE i = L + 1
    BY <1>1, <1>4, <2>1 DEF L, y
  <2>2. CASE i # L + 1
    <3>1. i \in 1..L /\ i \in 0..L
      BY <1>1, <2>2
    <3>2. Legal(c[i - 1], wire[i]) /\ c[i] = Hears(c[i - 1], wire[i])
      BY <3>1 DEF Course, L
    <3> QED BY <1>1, <1>4, <3>1, <3>2
  <2> QED BY <2>1, <2>2
<1>7. \A i \in 0..(L + 1) : Sound(d[i], pm, m)
  BY <1>4, <1>5 DEF L, y
<1>8. \A i \in 0..(L + 1) : d[i].answered =>
        x.answered \/ \E j \in 1..i : w[j].op = "x-result" /\ Accepts(d[j - 1], w[j])
  <2> SUFFICES ASSUME NEW i \in 0..(L + 1), d[i].answered, ~x.answered
               PROVE  \E j \in 1..i : w[j].op = "x-result" /\ Accepts(d[j - 1], w[j])
    OBVIOUS
  <2>1. ASSUME NEW k \in 0..L, c[k].answered
        PROVE  \E j \in 1..k : w[j].op = "x-result" /\ Accepts(d[j - 1], w[j])
    <3>1. PICK j \in 1..k : wire[j].op = "x-result" /\ Accepts(c[j - 1], wire[j])
      BY <2>1 DEF Course, L
    <3>2. j \in 1..L
      BY <1>1
    <3> QED BY <1>1, <1>4, <3>1, <3>2
  <2>2. CASE i \in 0..L
    BY <1>4, <2>1, <2>2
  <2>3. CASE i = L + 1 /\ c[L].answered
    <3>1. \E j \in 1..L : w[j].op = "x-result" /\ Accepts(d[j - 1], w[j])
      BY <1>2, <2>1, <2>3
    <3> QED BY <1>1, <2>3, <3>1
  <2>4. CASE i = L + 1 /\ ~c[L].answered
    <3>1. y.answered
      BY <1>4, <2>4
    <3>2. f.op = "x-result" /\ Accepts(c[L], f)
      BY <1>2, <2>4, <3>1, HearsFacts DEF y
    <3> QED BY <1>1, <1>4, <2>4, <3>2
  <2> QED BY <1>5, <2>2, <2>3, <2>4
<1>9. \A i \in 0..(L + 1) : d[i].started => x.started \/ \E j \in 1..i : IsUp(w[j])
  <2> SUFFICES ASSUME NEW i \in 0..(L + 1), d[i].started, ~x.started
               PROVE  \E j \in 1..i : IsUp(w[j])
    OBVIOUS
  <2>1. ASSUME NEW k \in 0..L, c[k].started
        PROVE  \E j \in 1..k : IsUp(w[j])
    <3>1. PICK j \in 1..k : IsUp(wire[j])
      BY <2>1 DEF Course, L
    <3>2. j \in 1..L
      BY <1>1
    <3> QED BY <1>1, <3>1, <3>2
  <2>2. CASE i \in 0..L
    BY <1>4, <2>1, <2>2
  <2>3. CASE i = L + 1 /\ c[L].started
    <3>1. \E j \in 1..L : IsUp(w[j])
      BY <1>2, <2>1, <2>3
    <3> QED BY <1>1, <2>3, <3>1
  <2>4. CASE i = L + 1 /\ ~c[L].started
    <3>1. y.started
      BY <1>4, <2>4
    <3>2. IsUp(f)
      BY <1>2, <2>4, <3>1, HearsFacts DEF y
    <3> QED BY <1>1, <2>4, <3>2
  <2> QED BY <1>5, <2>2, <2>3, <2>4
<1>10. \A i \in 0..(L + 1) : resumes /\ ~d[i].started =>
         d[i].forgotten \/ \E j \in 1..i : IsUp(w[j]) /\ ~Success(w[j].n)
  <2> SUFFICES ASSUME NEW i \in 0..(L + 1), resumes, ~d[i].started, ~d[i].forgotten
               PROVE  \E j \in 1..i : IsUp(w[j]) /\ ~Success(w[j].n)
    OBVIOUS
  <2>1. ASSUME NEW k \in 0..L, ~c[k].started, ~c[k].forgotten
        PROVE  \E j \in 1..k : IsUp(w[j]) /\ ~Success(w[j].n)
    <3>1. PICK j \in 1..k : IsUp(wire[j]) /\ ~Success(wire[j].n)
      BY <2>1 DEF Course, L
    <3>2. j \in 1..L
      BY <1>1
    <3> QED BY <1>1, <3>1, <3>2
  <2>2. CASE i \in 0..L
    BY <1>4, <2>1, <2>2
  <2>3. CASE i = L + 1 /\ ~IsUp(f)
    <3>1. ~y.started /\ ~y.forgotten
      BY <1>4, <2>3
    <3>2. ~c[L].started /\ ~c[L].forgotten
      BY <1>2, <2>3, <3>1, HearsFacts DEF y
    <3>3. \E j \in 1..L : IsUp(w[j]) /\ ~Success(w[j].n)
      BY <1>2, <2>1, <3>2
    <3> QED BY <1>1, <2>3, <3>3
  <2>4. CASE i = L + 1 /\ IsUp(f)
    <3>1. ~y.started
      BY <1>4, <2>4
    <3>2. ~Success(f.n)
      BY <1>2, <2>4, <3>1, HearsFacts DEF y
    <3> QED BY <1>1, <2>4, <3>2
  <2> QED BY <1>5, <2>2, <2>3, <2>4
<1>11. Course(d, w, x, pm, m, resumes) /\ d[L + 1] = y
  BY <1>1, <1>4, <1>6, <1>7, <1>8, <1>9, <1>10 DEF Course
<1> QED BY <1>1, <1>11 DEF w, L, y

(* What is on its way is cut off. *)
LEMMA CourseCut ==
    ASSUME NEW wire \in Seq(Frames), NEW k \in 0..Len(wire), NEW c, NEW x, NEW pl, NEW n,
           NEW resumes, Course(c, wire, x, pl, n, resumes)
    PROVE  /\ SubSeq(wire, 1, k) \in Seq(Frames) /\ Len(SubSeq(wire, 1, k)) = k
           /\ \A i \in 1..k : SubSeq(wire, 1, k)[i] = wire[i]
           /\ \E d : Course(d, SubSeq(wire, 1, k), x, pl, n, resumes)
<1> DEFINE w == SubSeq(wire, 1, k)
           d == [i \in 0..k |-> c[i]]
<1>1. /\ Len(wire) \in Nat /\ k \in Nat /\ w \in Seq(Frames) /\ Len(w) = k
      /\ \A i \in 1..k : w[i] = wire[i]
  BY LenProperties, SubSeqProperties
<1>2. /\ \A i \in 0..k : i \in 0..Len(wire) /\ d[i] = c[i]
      /\ \A i \in 1..k : i \in 1..Len(wire) /\ i - 1 \in 0..k /\ d[i - 1] = c[i - 1]
      /\ 0 \in 0..k
  BY <1>1
<1>3. d \in [0..k -> Heard]
  BY <1>2 DEF Course
<1> HIDE DEF w, d
<1>4. Course(d, w, x, pl, n, resumes)
  <2>1. d[0] = x
    BY <1>2 DEF Course
  <2>2. \A i \in 1..k : Legal(d[i - 1], w[i]) /\ d[i] = Hears(d[i - 1], w[i])
    <3> TAKE i \in 1..k
    <3>1. Legal(c[i - 1], wire[i]) /\ c[i] = Hears(c[i - 1], wire[i])
      BY <1>2 DEF Course
    <3>2. i \in 0..k
      BY <1>1
    <3> QED BY <1>1, <1>2, <3>1, <3>2
  <2>3. \A i \in 0..k : Sound(d[i], pl, n)
    BY <1>2 DEF Course
  <2>4. \A i \in 0..k : \A j \in 1..i : j \in 1..k /\ w[j] = wire[j] /\ d[j - 1] = c[j - 1]
    BY <1>1, <1>2
  <2>5. \A i \in 0..k : d[i].answered =>
          x.answered \/ \E j \in 1..i : w[j].op = "x-result" /\ Accepts(d[j - 1], w[j])
    <3> SUFFICES ASSUME NEW i \in 0..k, c[i].answered, ~x.answered
                 PROVE  \E j \in 1..i : w[j].op = "x-result" /\ Accepts(d[j - 1], w[j])
      BY <1>2
    <3>1. PICK j \in 1..i : wire[j].op = "x-result" /\ Accepts(c[j - 1], wire[j])
      BY <1>2 DEF Course
    <3> QED BY <2>4, <3>1
  <2>6. \A i \in 0..k : d[i].started => x.started \/ \E j \in 1..i : IsUp(w[j])
    <3> SUFFICES ASSUME NEW i \in 0..k, c[i].started, ~x.started
                 PROVE  \E j \in 1..i : IsUp(w[j])
      BY <1>2
    <3>1. PICK j \in 1..i : IsUp(wire[j])
      BY <1>2 DEF Course
    <3> QED BY <2>4, <3>1
  <2>7. \A i \in 0..k : resumes /\ ~d[i].started =>
           d[i].forgotten \/ \E j \in 1..i : IsUp(w[j]) /\ ~Success(w[j].n)
    BY <1>2, <2>4 DEF Course
  <2> QED BY <1>1, <1>3, <2>1, <2>2, <2>3, <2>5, <2>6, <2>7 DEF Course
<1> QED BY <1>1, <1>4 DEF w

-----------------------------------------------------------------------------
(* The broker and the network. *)

(* A place that ends, or a longer log, is as sound. *)
LEMMA SoundElsewhere ==
    ASSUME NEW x, NEW pl, NEW n \in Nat, Sound(x, pl, n), x.pos \in Nat, NEW pm, NEW m \in Nat,
           n <= m, pm = pl \/ pm = [pl EXCEPT !.st = "held"] \/ pm = Empty, pl \in PlaceType,
           pl.st # "free"
    PROVE  Sound(x, pm, m)
<1>1. x.pos <= m
  BY DEF Sound
<1>2. CASE pm = pl
  BY <1>1, <1>2 DEF Sound
<1>3. CASE pm = [pl EXCEPT !.st = "held"]
  <2>1. pm.subscribed = pl.subscribed /\ pm.base = pl.base /\ pm.st = "held"
    BY <1>3 DEF PlaceType
  <2> QED BY <1>1, <2>1 DEF Sound
<1>4. CASE pm = Empty
  BY <1>1, <1>4 DEF Sound, Empty
<1> QED BY <1>2, <1>3, <1>4

(* The connection of a running task. *)
LEMMA RunsFacts ==
    ASSUME UpstreamInv, pc = "run"
    PROVE  /\ socket \in Places /\ socket # NoPlace /\ place[socket] \in PlaceType
           /\ Len(fromBroker) \in Nat /\ log \in Nat
           /\ Connection(Now, fromBroker, toBroker, place, socket, log, first, sent_first)
           /\ Now \in Heard /\ log \in Nat /\ fromBroker \in Seq(Frames)
           /\ Open <=> place[socket].st = "open"
           /\ \A i \in 1..Len(fromBroker) : fromBroker[i] \in Frames
<1> USE PlacesAssumption, BoundAssumption
<1>1. BrokerTypes /\ TaskTypes /\ Runs
  BY DEF UpstreamInv
<1>2. socket \in Places /\ socket # NoPlace
  BY <1>1 DEF BrokerTypes, TaskTypes
<1>3. place[socket] \in PlaceType /\ log \in Nat /\ fromBroker \in Seq(Frames)
  BY <1>1, <1>2 DEF BrokerTypes
<1>4. Len(fromBroker) \in Nat /\ \A i \in 1..Len(fromBroker) : fromBroker[i] \in Frames
  BY <1>3, LenProperties, ElementOfSeq
<1>5. Open <=> place[socket].st = "open"
  BY <1>2 DEF Open
<1> QED BY <1>1, <1>2, <1>3, <1>4, <1>5 DEF Runs, TaskTypes

(* Only a running task has an open socket. *)
LEMMA OpenRuns == UpstreamInv /\ Open => pc = "run"
  BY PlacesAssumption DEF UpstreamInv, TaskTypes, Open

(* The view changes. *)
LEMMA ChangeKeeps == UpstreamInv /\ Change => UpstreamInv'
<1> SUFFICES ASSUME UpstreamInv, Change PROVE UpstreamInv'
  OBVIOUS
<1> USE BoundAssumption
<1>1. log \in 0..MaxChanges /\ log' = log + 1 /\ log < MaxChanges /\ log \in Nat
  BY DEF UpstreamInv, BrokerTypes, Change
<1>2. /\ UNCHANGED <<place, socket, toBroker, fromBroker, pc, resume, first, started, name, seq,
                     sent_first, refused_on, answered, refused, feed, registry>>
      /\ Now' = Now
  BY DEF Change, task, feed, registry, Now
<1>3. BrokerTypes'
  BY <1>1, <1>2 DEF UpstreamInv, BrokerTypes
<1>4. TaskTypes' /\ OtherTypes'
  BY <1>2 DEF UpstreamInv, TaskTypes, OtherTypes, registry
<1>5. Between'
  <2>1. pos \in Nat
    BY DEF UpstreamInv, TaskTypes, Now, Heard
  <2>2. Between /\ UNCHANGED <<pos, told, registered>>
    BY <1>2 DEF UpstreamInv, feed, registry
  <2> QED BY <1>1, <1>2, <2>1, <2>2 DEF Between
<1>6. ASSUME pc = "run" PROVE Runs'
  <2> DEFINE L == Len(fromBroker)
  <2>1. PICK c : /\ Course(c, fromBroker, Now, place[socket], log, first # Nowhere)
                 /\ place[socket].st = "open" =>
                      /\ Ready(c[L], place[socket])
                      /\ Asks(c[L], fromBroker, toBroker, place[socket], first, place)
    BY <1>6, RunsFacts DEF Connection
  <2>2. \A i \in 0..L : Sound(c[i], place[socket], log + 1)
    <3> TAKE i \in 0..L
    <3>1. c[i] \in Heard /\ Sound(c[i], place[socket], log)
      BY <2>1 DEF Course
    <3> QED BY <1>1, <3>1 DEF Sound, Heard
  <2>3. Course(c, fromBroker, Now, place[socket], log + 1, first # Nowhere)
    BY <2>1, <2>2, CourseElsewhere
  <2>4. OneQuestion(fromBroker, toBroker, Now.answered, place[socket], first, sent_first)
    BY <1>6, RunsFacts DEF Connection
  <2>5. Connection(Now, fromBroker, toBroker, place, socket, log + 1, first, sent_first)
    BY <2>1, <2>3, <2>4 DEF Connection
  <2> QED BY <1>1, <1>2, <2>5 DEF Runs
<1> QED BY <1>2, <1>3, <1>4, <1>5, <1>6 DEF UpstreamInv, Runs

(* The socket ends after any of the frames on their way. *)
LEMMA SocketEndsKeeps == UpstreamInv /\ SocketEnds => UpstreamInv'
<1> SUFFICES ASSUME UpstreamInv, SocketEnds PROVE UpstreamInv'
  OBVIOUS
<1> DEFINE L == Len(fromBroker)
           closing == Frame("x-closing", 0, 0)
           pl == place[socket]
           pm == [pl EXCEPT !.st = "held"]
<1>1. pc = "run" /\ Open
  BY OpenRuns DEF SocketEnds
<1>2. PICK k \in 0..L : fromBroker' = Append(SubSeq(fromBroker, 1, k), closing)
  BY DEF SocketEnds
<1>3. /\ UNCHANGED <<log, socket, pc, resume, first, started, name, seq, sent_first, refused_on,
                     answered, refused, feed, registry>>
      /\ Now' = Now /\ toBroker' = <<>>
      /\ place' = [place EXCEPT ![socket] = pm]
  BY DEF SocketEnds, task, feed, registry, Now
<1>4. /\ closing \in Frames /\ closing \in Signs /\ closing.op = "x-closing"
      /\ \A x, n, q : Legal(x, closing) /\ Hears(x, closing) = x
  BY DEF Frame, Frames, Signs, Legal, Hears
<1>5. /\ socket \in Places /\ pl \in PlaceType /\ pl.st = "open" /\ log \in Nat
      /\ place \in [Places -> PlaceType] /\ fromBroker \in Seq(Frames) /\ L \in Nat
  BY <1>1, RunsFacts DEF UpstreamInv, BrokerTypes
<1>6. /\ pm \in PlaceType /\ pm.st = "held" /\ pm.subscribed = pl.subscribed
      /\ place'[socket] = pm /\ \A p \in Places : p # socket => place'[p] = place[p]
      /\ place' \in [Places -> PlaceType]
  <2>1. pm \in PlaceType /\ pm.st = "held" /\ pm.subscribed = pl.subscribed
    BY <1>5 DEF PlaceType
  <2> QED BY <1>3, <1>5, <2>1
<1> HIDE DEF closing, pm, pl
<1> DEFINE cut == SubSeq(fromBroker, 1, k)
<1>7. PICK c : Course(c, fromBroker, Now, pl, log, first # Nowhere)
  BY <1>1, RunsFacts DEF Connection, pl
<1>8. /\ cut \in Seq(Frames) /\ Len(cut) = k /\ k \in Nat /\ \A i \in 1..k : cut[i] = fromBroker[i]
      /\ \E d : Course(d, cut, Now, pl, log, first # Nowhere)
  BY <1>5, <1>7, CourseCut
<1>9. PICK d : Course(d, cut, Now, pl, log, first # Nowhere)
  BY <1>8
<1> HIDE DEF cut
<1>10. /\ \A i \in 0..k : Sound(d[i], pm, log) /\ d[k] \in Heard
  <2> SUFFICES ASSUME NEW i \in 0..k PROVE Sound(d[i], pm, log) /\ d[i] \in Heard
    BY <1>5
  <2>1. d[i] \in Heard /\ Sound(d[i], pl, log)
    BY <1>8, <1>9 DEF Course
  <2>2. d[i].pos \in Nat
    BY <2>1 DEF Heard
  <2> QED BY <1>5, <2>1, <2>2, SoundElsewhere DEF pm
<1>11. /\ Append(cut, closing) \in Seq(Frames) /\ Len(Append(cut, closing)) = k + 1
       /\ Append(cut, closing)[k + 1] = closing
       /\ \A i \in 1..k : Append(cut, closing)[i] = cut[i]
       /\ \E e : Course(e, Append(cut, closing), Now, pm, log, first # Nowhere)
  <2>1. Legal(d[Len(cut)], closing) /\ Hears(d[Len(cut)], closing) = d[Len(cut)]
    BY <1>4
  <2>2. \A i \in 0..Len(cut) : Sound(d[i], pm, log)
    BY <1>8, <1>10
  <2>3. Sound(Hears(d[Len(cut)], closing), pm, log)
    BY <1>8, <2>1, <2>2
  <2> DEFINE r == first # Nowhere
  <2>4. Course(d, cut, Now, pl, log, r)
    BY <1>9
  <2> HIDE DEF r
  <2>5. /\ Append(cut, closing) \in Seq(Frames) /\ Len(Append(cut, closing)) = Len(cut) + 1
        /\ Append(cut, closing)[Len(cut) + 1] = closing
        /\ \A i \in 1..Len(cut) : Append(cut, closing)[i] = cut[i]
        /\ \E e : /\ Course(e, Append(cut, closing), Now, pm, log, r)
                  /\ e[Len(cut) + 1] = Hears(d[Len(cut)], closing)
    BY <1>4, <1>8, <2>1, <2>2, <2>3, <2>4, CourseGrows
  <2>6. \E e : Course(e, Append(cut, closing), Now, pm, log, r)
    BY <2>5
  <2> QED BY <1>8, <2>5, <2>6 DEF r
<1> DEFINE w == fromBroker'
<1>12. /\ w \in Seq(Frames) /\ Len(w) = k + 1 /\ w[k + 1] = closing
       /\ \A i \in 1..k : w[i] = fromBroker[i] /\ i \in 1..L
       /\ \A i \in 1..(k + 1) : i \in 1..k \/ w[i] = closing
       /\ \E e : Course(e, w, Now, pm, log, first # Nowhere)
  <2>1. w = Append(cut, closing)
    BY <1>2 DEF cut
  <2> QED BY <1>5, <1>8, <1>11, <2>1
<1> HIDE DEF w, L
<1>13. OneQuestion(w, <<>>, Now.answered, pm, first, sent_first)
  <2>1. OneQuestion(fromBroker, toBroker, Now.answered, pl, first, sent_first)
    BY <1>1, RunsFacts DEF Connection, pl
  <2>2. \A i \in 1..Len(w) : w[i].op = "x-welcome" \/ w[i].op = "x-result" =>
           i \in 1..L /\ w[i] = fromBroker[i]
    BY <1>4, <1>12
  <2>3. ~sent_first => ~Now.answered /\ \A i \in 1..Len(w) : w[i].op # "x-result"
    BY <2>1, <2>2 DEF OneQuestion, L
  <2>4. \A i \in 1..Len(w) : w[i].op = "x-welcome" => i = 1 /\ ~sent_first
    BY <2>1, <2>2 DEF OneQuestion, L
  <2>5. \A i, j \in 1..Len(w) : w[i].op = "x-result" /\ w[j].op = "x-result" => i = j
    BY <2>1, <2>2 DEF OneQuestion, L
  <2>6. \A i \in 1..Len(w) : w[i].op = "x-result" => ~Now.answered
    BY <2>1, <2>2 DEF OneQuestion, L
  <2>7. \A i \in 1..Len(w) : w[i].op = "x-result" /\ w[i].id = "resume" =>
           first # Nowhere /\ (w[i].n = 404 => ~pm.subscribed)
    BY <1>6, <2>1, <2>2 DEF OneQuestion, L, pl
  <2> QED BY <1>6, <2>3, <2>4, <2>5, <2>6, <2>7 DEF OneQuestion
<1>14. Connection(Now, w, <<>>, place', socket, log, first, sent_first)
  BY <1>6, <1>12, <1>13 DEF Connection
<1>15. Runs'
  BY <1>3, <1>14 DEF Runs, w
<1>16. BrokerTypes'
  <2>1. <<>> \in Seq(Messages)
    BY EmptySeq
  <2>2. \A p \in Places : place'[p].st = "free" => ~place'[p].subscribed
    BY <1>6 DEF UpstreamInv, BrokerTypes
  <2> QED BY <1>3, <1>6, <1>12, <2>1, <2>2 DEF UpstreamInv, BrokerTypes, w
<1>17. TaskTypes' /\ OtherTypes'
  BY <1>3 DEF UpstreamInv, TaskTypes, OtherTypes, registry
<1> QED BY <1>1, <1>3, <1>15, <1>16, <1>17 DEF UpstreamInv, Between

(* The broker forgets a place. *)
LEMMA PlaceExpiresKeeps ==
    ASSUME NEW p \in Places
    PROVE  UpstreamInv /\ PlaceExpires(p) => UpstreamInv'
<1> SUFFICES ASSUME UpstreamInv, PlaceExpires(p) PROVE UpstreamInv'
  OBVIOUS
<1>1. /\ UNCHANGED <<log, socket, toBroker, fromBroker, pc, resume, first, started, name, seq,
                     sent_first, refused_on, answered, refused, feed, registry>>
      /\ Now' = Now
      /\ place[p].st = "held" /\ place' = [place EXCEPT ![p] = Empty]
  BY DEF PlaceExpires, task, feed, registry, Now
<1>2. /\ place \in [Places -> PlaceType] /\ Empty \in PlaceType /\ ~Empty.subscribed
      /\ Empty.st = "free"
  BY DEF UpstreamInv, BrokerTypes, Empty, PlaceType
<1>3. /\ place' \in [Places -> PlaceType] /\ place'[p] = Empty
      /\ \A q \in Places : q # p => place'[q] = place[q]
  BY <1>1, <1>2
<1>4. BrokerTypes'
  <2>1. \A q \in Places : place'[q].st = "free" => ~place'[q].subscribed
    BY <1>2, <1>3 DEF UpstreamInv, BrokerTypes
  <2> QED BY <1>1, <1>3, <2>1 DEF UpstreamInv, BrokerTypes
<1>5. TaskTypes' /\ OtherTypes'
  BY <1>1 DEF UpstreamInv, TaskTypes, OtherTypes, registry
<1>6. ASSUME NEW x, NEW from, Continues(x, from, place)
      PROVE  Continues(x, from, place')
  BY <1>2, <1>3, <1>6 DEF Continues
<1>7. Between'
  BY <1>1, <1>6 DEF UpstreamInv, Between, feed, registry
<1>8. ASSUME pc = "run" PROVE Runs'
  <2> DEFINE L == Len(fromBroker)
             pl == place[socket]
  <2>1. PICK c : /\ Course(c, fromBroker, Now, pl, log, first # Nowhere)
                 /\ pl.st = "open" =>
                      /\ Ready(c[L], pl)
                      /\ Asks(c[L], fromBroker, toBroker, pl, first, place)
    BY <1>8, RunsFacts DEF Connection
  <2>2. OneQuestion(fromBroker, toBroker, Now.answered, pl, first, sent_first)
    BY <1>8, RunsFacts DEF Connection
  <2>3. CASE p = socket
    <3>1. \A i \in 0..L : Sound(c[i], Empty, log)
      <4> TAKE i \in 0..L
      <4>1. c[i] \in Heard /\ Sound(c[i], pl, log)
        BY <2>1 DEF Course
      <4> QED BY <1>8, <1>1, <2>3, <4>1, RunsFacts, SoundElsewhere DEF Heard
    <3>2. Course(c, fromBroker, Now, Empty, log, first # Nowhere)
      BY <2>1, <3>1, CourseElsewhere
    <3>3. OneQuestion(fromBroker, toBroker, Now.answered, Empty, first, sent_first)
      BY <1>1, <1>2, <2>2, <2>3 DEF OneQuestion
    <3>4. Connection(Now, fromBroker, toBroker, place', socket, log, first, sent_first)
      BY <1>2, <1>3, <2>3, <3>2, <3>3 DEF Connection
    <3> QED BY <1>1, <3>4 DEF Runs
  <2>4. CASE p # socket
    <3>1. place'[socket] = pl
      BY <1>3, <1>8, <2>4, RunsFacts
    <3>2. pl.st = "open" => Asks(c[L], fromBroker, toBroker, pl, first, place')
      BY <1>6, <2>1 DEF Asks
    <3>3. Connection(Now, fromBroker, toBroker, place', socket, log, first, sent_first)
      BY <2>1, <2>2, <3>1, <3>2 DEF Connection
    <3> QED BY <1>1, <3>3 DEF Runs
  <2> QED BY <2>3, <2>4
<1> QED BY <1>1, <1>4, <1>5, <1>7, <1>8 DEF UpstreamInv, Runs

(* The registry, the clients and the table. *)
LEMMA RegistryKeeps == UpstreamInv /\ Registry => UpstreamInv'
<1> SUFFICES ASSUME UpstreamInv, Registry PROVE UpstreamInv'
  OBVIOUS
<1>1. UNCHANGED <<broker, task, refused, feed>>
  BY DEF Registry, Join, AnotherJoins, LastClientLeaves, Lingers, MakeRoom, Reload, Reloaded
<1>2. registered' \in BOOLEAN /\ (registered' => registered)
  <2>1. registered' = registered \/ registered' = FALSE
    BY DEF Registry, Join, AnotherJoins, LastClientLeaves, Lingers, MakeRoom, Reload, Reloaded
  <2>2. registered \in BOOLEAN
    BY DEF UpstreamInv, OtherTypes
  <2>3. CASE registered' = registered
    BY <2>2, <2>3
  <2>4. CASE registered' = FALSE
    BY <2>4
  <2> QED BY <2>1, <2>3, <2>4
<1>3. clients' \in {"some", "none", "lingered"} /\ record' \in Records
  BY DEF Registry, Join, AnotherJoins, LastClientLeaves, Lingers, MakeRoom, Reload, Reloaded,
         UpstreamInv, OtherTypes
<1>4. Now' = Now
  BY <1>1 DEF Now, task, feed
<1>5. BrokerTypes' /\ TaskTypes'
  BY <1>1, <1>4 DEF UpstreamInv, BrokerTypes, TaskTypes, broker, task
<1>6. OtherTypes'
  BY <1>1, <1>2, <1>3 DEF UpstreamInv, OtherTypes
<1>7. Between'
  BY <1>1, <1>2, <1>4 DEF UpstreamInv, Between, broker, task, feed
<1>8. Runs'
  BY <1>1, <1>4 DEF UpstreamInv, Runs, broker, task
<1> QED BY <1>5, <1>6, <1>7, <1>8 DEF UpstreamInv

(* A question is not asked while its answer is on the way. *)
LEMMA AskedFacts ==
    ASSUME NEW wire \in Seq(Frames), NEW asked, NEW answers, NEW pl, NEW from, NEW sent,
           OneQuestion(wire, asked, answers, pl, from, sent), asked # <<>>
    PROVE  /\ sent /\ ~answers /\ Len(asked) = 1 /\ pl.st = "open"
           /\ \A i \in 1..Len(wire) : wire[i].op # "x-result" /\ wire[i].op # "x-welcome"
           /\ wire # <<>> => wire[1].op # "x-welcome"
<1>1. sent /\ ~answers /\ Len(asked) = 1 /\ pl.st = "open"
  BY DEF OneQuestion
<1>2. \A i \in 1..Len(wire) : wire[i].op # "x-result" /\ wire[i].op # "x-welcome"
  BY DEF OneQuestion
<1>3. wire # <<>> => 1 \in 1..Len(wire)
  BY EmptySeq
<1> QED BY <1>1, <1>2, <1>3

(* Without a result on its way, the course changes neither belief nor start. *)
LEMMA QuietCourse ==
    ASSUME NEW wire \in Seq(Frames), NEW c, NEW x, NEW pl, NEW n, NEW resumes,
           Course(c, wire, x, pl, n, resumes),
           \A i \in 1..Len(wire) : wire[i].op # "x-result"
    PROVE  \A i \in 0..Len(wire) : /\ c[i] \in Heard
                                   /\ c[i].answered => x.answered
                                   /\ c[i].started => x.started
                                   /\ resumes /\ ~c[i].started => c[i].forgotten
<1>1. Len(wire) \in Nat
  BY LenProperties
<1>2. \A i \in 0..Len(wire) : \A j \in 1..i : j \in 1..Len(wire) /\ ~IsUp(wire[j])
  BY <1>1 DEF IsUp
<1>3. \A i \in 0..Len(wire) : c[i] \in Heard
  BY DEF Course
<1>4. \A i \in 0..Len(wire) : c[i].answered => x.answered
  BY <1>2 DEF Course
<1>5. \A i \in 0..Len(wire) : c[i].started => x.started
  BY <1>2 DEF Course
<1>6. \A i \in 0..Len(wire) : resumes /\ ~c[i].started => c[i].forgotten
  BY <1>2 DEF Course
<1> QED BY <1>3, <1>4, <1>5, <1>6

(* The broker answers a subscription. *)
LEMMA SubscribesKeeps == UpstreamInv /\ BrokerSubscribes => UpstreamInv'
<1> SUFFICES ASSUME UpstreamInv, BrokerSubscribes PROVE UpstreamInv'
  OBVIOUS
<1> USE BoundAssumption
<1> DEFINE L == Len(fromBroker)
           pl == place[socket]
<1>1. pc = "run" /\ Open /\ toBroker # <<>> /\ Head(toBroker).op = "x-subscribe"
  BY OpenRuns DEF BrokerSubscribes
<1>2. PICK s \in Statuses :
        /\ fromBroker' = Append(fromBroker, [op |-> "x-result", id |-> "up", n |-> s, base |-> log])
        /\ place' = IF Success(s)
                    THEN [place EXCEPT ![socket] =
                            [@ EXCEPT !.subscribed = TRUE, !.next = log + 1, !.base = log]]
                    ELSE place
  BY DEF BrokerSubscribes, Send
<1> DEFINE f == [op |-> "x-result", id |-> "up", n |-> s, base |-> log]
           pm == IF Success(s)
                 THEN [pl EXCEPT !.subscribed = TRUE, !.next = log + 1, !.base = log]
                 ELSE pl
<1>3. /\ UNCHANGED <<log, socket, pc, resume, first, started, name, seq, sent_first, refused_on,
                     answered, refused, feed, registry>>
      /\ Now' = Now /\ toBroker' = Tail(toBroker)
  BY DEF BrokerSubscribes, task, feed, registry, Now
<1>4. /\ socket \in Places /\ pl \in PlaceType /\ pl.st = "open" /\ log \in Nat
      /\ place \in [Places -> PlaceType] /\ fromBroker \in Seq(Frames) /\ L \in Nat
  BY <1>1, RunsFacts DEF UpstreamInv, BrokerTypes
<1>5. /\ f \in Frames /\ f \in UpResults /\ f.op = "x-result" /\ f.id = "up" /\ f.n = s
      /\ f.base = log /\ IsUp(f)
  BY <1>4 DEF Frames, UpResults, IsUp
<1>6. /\ pm \in PlaceType /\ pm.st = "open"
      /\ Success(s) => pm.subscribed /\ pm.next = log + 1 /\ pm.base = log
      /\ ~Success(s) => pm = pl
  <2>1. CASE Success(s)
    <3>1. pm = [pl EXCEPT !.subscribed = TRUE, !.next = log + 1, !.base = log]
      BY <2>1
    <3>2. pl \in PlaceType /\ pl.st = "open" /\ log \in Nat /\ log + 1 \in Nat
      BY <1>4
    <3> HIDE DEF pl, pm
    <3> QED BY <2>1, <3>1, <3>2 DEF PlaceType
  <2>2. CASE ~Success(s)
    BY <1>4, <2>2
  <2> QED BY <2>1, <2>2
<1>7. /\ place'[socket] = pm /\ \A p \in Places : p # socket => place'[p] = place[p]
      /\ place' \in [Places -> PlaceType]
  BY <1>2, <1>4, <1>6
<1>8. fromBroker' = Append(fromBroker, f)
  BY <1>2
<1> HIDE DEF f, pm, pl, L
<1>9. PICK c : /\ Course(c, fromBroker, Now, pl, log, first # Nowhere)
               /\ Ready(c[L], pl)
               /\ Asks(c[L], fromBroker, toBroker, pl, first, place)
  BY <1>1, <1>4, RunsFacts DEF Connection, pl, L
<1>10. OneQuestion(fromBroker, toBroker, Now.answered, pl, first, sent_first)
  BY <1>1, RunsFacts DEF Connection, pl
<1>11. /\ sent_first /\ ~Now.answered /\ Len(toBroker) = 1
       /\ \A i \in 1..L : fromBroker[i].op # "x-result" /\ fromBroker[i].op # "x-welcome"
  BY <1>1, <1>4, <1>10, AskedFacts DEF L
<1>12. toBroker' = <<>>
  <2>1. toBroker \in Seq(Messages)
    BY DEF UpstreamInv, BrokerTypes
  <2>2. Tail(toBroker) \in Seq(Messages) /\ Len(Tail(toBroker)) = 0
    BY <1>1, <1>11, <2>1, HeadTailProperties
  <2> QED BY <1>3, <2>2, EmptySeq
<1>13. \A i \in 0..L : /\ c[i] \in Heard /\ ~c[i].answered
                       /\ Sound(c[i], pl, log)
  BY <1>4, <1>9, <1>11, QuietCourse DEF L, Course
<1> DEFINE x == c[L]
           y == Hears(x, f)
<1>14. /\ x \in Heard /\ ~x.answered /\ Sound(x, pl, log) /\ Ready(x, pl)
       /\ x.started => Warned(x)
       /\ pl.subscribed => ~x.started /\ x.forgotten
       /\ x.seq = 0 \/ x.forgotten
  <2>1. L \in 0..L
    BY <1>4
  <2>2. Head(toBroker) = toBroker[1]
    BY <1>1
  <2>3. toBroker[1] # Frame("x-resume", first.at, first.seq)
    BY <1>1, <2>2 DEF Frame
  <2> QED BY <1>1, <1>9, <1>13, <2>1, <2>3 DEF Asks
<1> HIDE DEF x
<1>15. y = HearsUp(x, f) /\ (Accepts(x, f) <=> Success(s))
  BY <1>5, HeardAs DEF Accepts
<1>16. Legal(x, f)
  BY <1>5, <1>14 DEF Legal, Sound, Heard
<1>17. \A i \in 0..L : Sound(c[i], pm, log)
  <2> TAKE i \in 0..L
  <2>1. c[i] \in Heard /\ ~c[i].answered /\ Sound(c[i], pl, log)
    BY <1>13
  <2>2. c[i].pos \in Nat /\ c[i].seq \in Nat
    BY <2>1 DEF Heard
  <2>3. CASE Success(s)
    BY <1>4, <1>6, <2>1, <2>2, <2>3 DEF Sound
  <2> QED BY <1>6, <2>1, <2>3
<1>18. y \in Heard /\ Sound(y, pm, log) /\ Ready(y, pm)
  <2>1. /\ x.pos \in Nat /\ x.seq \in Nat /\ x.told \in BOOLEAN /\ x.forgotten \in BOOLEAN
        /\ x.started \in BOOLEAN /\ pl.base \in Nat /\ pl.next \in Nat /\ x.pos <= log
    BY <1>4, <1>14 DEF Heard, PlaceType, Sound
  <2>2. CASE Success(s) /\ x.started
    <3>1. /\ y.pos = x.pos /\ y.told = x.told /\ y.forgotten = x.forgotten /\ y.started
          /\ y.seq = x.seq /\ y.answered
      BY <1>15, <2>1, <2>2 DEF HearsUp
    <3>2. Warned(y)
      BY <1>14, <2>2, <3>1 DEF Warned
    <3> QED BY <1>4, <1>6, <1>14, <1>5, <2>1, <2>2, <3>1, <3>2, HearsType DEF Sound, Ready
  <2>3. CASE Success(s) /\ ~x.started
    <3>1. /\ y.pos = log /\ y.told = FALSE /\ y.forgotten = x.forgotten /\ y.started
          /\ y.seq = x.seq /\ y.answered
      BY <1>5, <1>15, <2>1, <2>3 DEF HearsUp
    <3>2. y.seq = 0 \/ Warned(y)
      BY <1>14, <3>1 DEF Warned
    <3> QED BY <1>4, <1>6, <1>14, <1>5, <2>1, <2>3, <3>1, <3>2, HearsType DEF Sound, Ready
  <2>4. CASE ~Success(s)
    <3>1. /\ y.pos = x.pos /\ y.told = TRUE /\ y.forgotten = x.forgotten /\ y.started = FALSE
          /\ y.seq = x.seq /\ y.answered = FALSE
      BY <1>15, <2>4 DEF HearsUp
    <3> QED BY <1>4, <1>6, <1>14, <1>5, <2>1, <2>4, <3>1, HearsType DEF Sound, Ready
  <2> QED BY <2>2, <2>3, <2>4
<1> DEFINE w == fromBroker'
<1>19. /\ w \in Seq(Frames) /\ Len(w) = L + 1 /\ w[L + 1] = f
       /\ \A i \in 1..L : w[i] = fromBroker[i]
       /\ \E d : Course(d, w, Now, pm, log, first # Nowhere) /\ d[L + 1] = y
  <2>1. Legal(c[Len(fromBroker)], f)
    BY <1>16 DEF L, x
  <2>2. \A i \in 0..Len(fromBroker) : Sound(c[i], pm, log)
    BY <1>17 DEF L
  <2>3. Sound(Hears(c[Len(fromBroker)], f), pm, log)
    BY <1>18 DEF L, x
  <2>4. /\ Append(fromBroker, f) \in Seq(Frames) /\ Len(Append(fromBroker, f)) = L + 1
        /\ Append(fromBroker, f)[L + 1] = f
        /\ \A i \in 1..L : Append(fromBroker, f)[i] = fromBroker[i]
        /\ \E d : /\ Course(d, Append(fromBroker, f), Now, pm, log, first # Nowhere)
                  /\ d[L + 1] = Hears(c[L], f)
    BY <1>4, <1>5, <1>9, <2>1, <2>2, <2>3, CourseGrows DEF L
  <2> QED BY <1>8, <2>4 DEF x
<1>20. \A i \in 1..Len(w) : w[i].op # "x-welcome" /\ (w[i].op = "x-result" => i = L + 1)
  BY <1>4, <1>5, <1>11, <1>19
<1>21. w[1].op # "x-welcome"
  BY <1>4, <1>19, <1>20
<1> HIDE DEF w, y
<1>22. Asks(y, w, <<>>, pm, first, place')
  BY <1>21 DEF Asks
<1>23. OneQuestion(w, <<>>, Now.answered, pm, first, sent_first)
  BY <1>5, <1>11, <1>19, <1>20 DEF OneQuestion
<1>24. Runs'
  <2>1. Connection(Now, w, <<>>, place', socket, log, first, sent_first)
    BY <1>7, <1>18, <1>19, <1>22, <1>23 DEF Connection
  <2> QED BY <1>3, <1>12, <2>1 DEF Runs, w
<1>25. BrokerTypes'
  <2>1. <<>> \in Seq(Messages)
    BY EmptySeq
  <2>2. \A p \in Places : place'[p].st = "free" => ~place'[p].subscribed
    BY <1>6, <1>7 DEF UpstreamInv, BrokerTypes
  <2> QED BY <1>3, <1>7, <1>12, <1>19, <2>1, <2>2 DEF UpstreamInv, BrokerTypes, w
<1>26. TaskTypes' /\ OtherTypes'
  BY <1>3 DEF UpstreamInv, TaskTypes, OtherTypes, registry
<1> QED BY <1>1, <1>3, <1>24, <1>25, <1>26 DEF UpstreamInv, Between

(* Sound says nothing of what the broker sends next. *)
LEMMA SoundNext ==
    ASSUME NEW x, NEW pl \in PlaceType, NEW n, NEW k \in Nat, Sound(x, pl, n)
    PROVE  Sound(x, [pl EXCEPT !.next = k], n)
  BY DEF Sound, PlaceType

(* What the broker may say, with its place at pm after it. *)
Fits(f, pl, pm, n) ==
    \A x \in Heard : Sound(x, pl, n) /\ Ready(x, pl) =>
        Legal(x, f) /\ Sound(Hears(x, f), pl, n) /\ Ready(Hears(x, f), pm)

(* The broker says something of the view it has been asked for. *)
Tells(f, k) ==
    /\ Open /\ place[socket].subscribed
    /\ f.op # "x-welcome"
    /\ Fits(f, place[socket], [place[socket] EXCEPT !.next = k], log)
    /\ place' = [place EXCEPT ![socket].next = k]
    /\ Send(f)
    /\ UNCHANGED <<log, socket, toBroker, task, refused, feed, registry>>

LEMMA BrokerTells ==
    ASSUME UpstreamInv, NEW f, f \in Signs \/ f \in Notes, NEW k \in Nat, Tells(f, k)
    PROVE  UpstreamInv'
<1> DEFINE L == Len(fromBroker)
           pl == place[socket]
           pm == [pl EXCEPT !.next = k]
<1>1. pc = "run"
  BY OpenRuns DEF Tells
<1>2. /\ UNCHANGED <<log, socket, pc, resume, first, started, name, seq, sent_first, refused_on,
                     answered, refused, feed, registry, toBroker>>
      /\ Now' = Now /\ f.op # "x-welcome"
  BY DEF Tells, task, feed, registry, Now
<1>3. /\ socket \in Places /\ pl \in PlaceType /\ pl.st = "open" /\ pl.subscribed
      /\ place \in [Places -> PlaceType] /\ fromBroker \in Seq(Frames) /\ L \in Nat
  BY <1>1, RunsFacts DEF UpstreamInv, BrokerTypes, Tells
<1>4. f \in Frames /\ f.op # "x-result" /\ ~IsUp(f)
  BY DEF Frames, Signs, Notes, IsUp
<1>5. pm \in PlaceType /\ pm.st = "open" /\ pm.subscribed
  BY <1>3 DEF PlaceType
<1>6. /\ place'[socket] = pm /\ \A p \in Places : p # socket => place'[p] = place[p]
      /\ place' \in [Places -> PlaceType]
  <2>1. place' = [place EXCEPT ![socket] = pm]
    BY <1>3 DEF Tells
  <2> HIDE DEF pm
  <2> QED BY <1>3, <1>5, <2>1
<1>7. \A x \in Heard : Sound(x, pl, log) /\ Ready(x, pl) =>
        Legal(x, f) /\ Sound(Hears(x, f), pl, log) /\ Ready(Hears(x, f), pm)
  BY DEF Fits, Tells
<1>8. \A x : Sound(x, pl, log) => Sound(x, pm, log)
  BY <1>3, SoundNext
<1> HIDE DEF pl, pm
<1>9. PICK c : /\ Course(c, fromBroker, Now, pl, log, first # Nowhere)
               /\ Ready(c[L], pl)
               /\ Asks(c[L], fromBroker, toBroker, pl, first, place)
  BY <1>1, <1>3, RunsFacts DEF Connection, pl
<1>10. OneQuestion(fromBroker, toBroker, Now.answered, pl, first, sent_first)
  BY <1>1, RunsFacts DEF Connection, pl
<1> DEFINE x == c[L]
           y == Hears(x, f)
<1>11. x \in Heard /\ Sound(x, pl, log) /\ \A i \in 0..L : Sound(c[i], pl, log)
  <2>1. L \in 0..L
    BY <1>3
  <2> QED BY <1>9, <2>1 DEF Course
<1>12. Legal(x, f) /\ Sound(y, pm, log) /\ Ready(y, pm)
  BY <1>7, <1>8, <1>9, <1>11
<1>13. /\ Append(fromBroker, f) \in Seq(Frames) /\ Len(Append(fromBroker, f)) = L + 1
       /\ Append(fromBroker, f)[L + 1] = f
       /\ \A i \in 1..L : Append(fromBroker, f)[i] = fromBroker[i]
       /\ \E d : /\ Course(d, Append(fromBroker, f), Now, pm, log, first # Nowhere)
                 /\ d[L + 1] = y
  <2>1. \A i \in 0..Len(fromBroker) : Sound(c[i], pm, log)
    BY <1>8, <1>11
  <2>2. /\ Legal(c[Len(fromBroker)], f) /\ Sound(Hears(c[Len(fromBroker)], f), pm, log)
        /\ fromBroker \in Seq(Frames) /\ f \in Frames
        /\ Course(c, fromBroker, Now, pl, log, first # Nowhere)
    BY <1>3, <1>4, <1>9, <1>12
  <2> QED BY <2>1, <2>2, CourseGrows
<1> DEFINE w == fromBroker'
<1>14. /\ w \in Seq(Frames) /\ Len(w) = L + 1 /\ w[L + 1] = f
       /\ \A i \in 1..L : w[i] = fromBroker[i]
       /\ \E d : Course(d, w, Now, pm, log, first # Nowhere) /\ d[L + 1] = y
  BY <1>13 DEF Tells, Send
<1>15. fromBroker # <<>> => fromBroker[1].op # "x-welcome"
  BY <1>3, <1>9 DEF Asks
<1>16. \A i \in 1..Len(w) : w[i].op # "x-welcome" /\ (w[i].op = "x-result" => i \in 1..L)
  <2> SUFFICES ASSUME NEW i \in 1..Len(w)
               PROVE  w[i].op # "x-welcome" /\ (w[i].op = "x-result" => i \in 1..L)
    OBVIOUS
  <2>1. CASE i = L + 1
    BY <1>2, <1>4, <1>14, <2>1
  <2>2. CASE i # L + 1
    <3>1. i \in 1..L
      BY <1>3, <1>14, <2>2
    <3>2. fromBroker # <<>>
      BY <1>3, <3>1, EmptySeq
    <3>3. w[i].op = "x-welcome" => i = 1
      BY <1>10, <1>14, <3>1 DEF OneQuestion
    <3> QED BY <1>14, <1>15, <3>1, <3>2, <3>3
  <2> QED BY <2>1, <2>2
<1>17. /\ y.started <=> x.started
       /\ ~x.started => y.forgotten = x.forgotten
  BY <1>4, <1>11, HearsFacts
<1> HIDE DEF w, x, y
<1>18. Asks(y, w, toBroker, pm, first, place')
  <2>1. w[1].op # "x-welcome"
    BY <1>3, <1>14, <1>16
  <2>2. ASSUME toBroker # <<>>
        PROVE  /\ toBroker[1] = Frame("x-subscribe", NoPlace, 0)
               /\ ~x.started /\ x.forgotten
    BY <1>3, <1>9, <2>2 DEF Asks, x
  <2> QED BY <1>17, <2>1, <2>2 DEF Asks
<1>19. OneQuestion(w, toBroker, Now.answered, pm, first, sent_first)
  <2>1. \A i \in 1..L : w[i] = fromBroker[i]
    BY <1>14
  <2>2. ~sent_first => ~Now.answered /\ toBroker = <<>> /\ \A i \in 1..Len(w) : w[i].op # "x-result"
    BY <1>10, <1>16, <2>1 DEF OneQuestion
  <2>3. toBroker # <<>> => /\ Len(toBroker) = 1 /\ pm.st = "open" /\ ~Now.answered
                           /\ \A i \in 1..Len(w) : w[i].op # "x-result"
    BY <1>5, <1>10, <1>16, <2>1 DEF OneQuestion
  <2>4. \A i, j \in 1..Len(w) : w[i].op = "x-result" /\ w[j].op = "x-result" => i = j
    BY <1>10, <1>16, <2>1 DEF OneQuestion
  <2>5. \A i \in 1..Len(w) : w[i].op = "x-result" => ~Now.answered
    BY <1>10, <1>16, <2>1 DEF OneQuestion
  <2>6. \A i \in 1..Len(w) : w[i].op = "x-result" /\ w[i].id = "resume" =>
          first # Nowhere /\ w[i].n # 404
    BY <1>3, <1>10, <1>16, <2>1 DEF OneQuestion
  <2> QED BY <1>16, <2>2, <2>3, <2>4, <2>5, <2>6 DEF OneQuestion
<1>20. Runs'
  <2>1. Connection(Now, w, toBroker, place', socket, log, first, sent_first)
    BY <1>6, <1>12, <1>14, <1>18, <1>19 DEF Connection, y
  <2> QED BY <1>2, <2>1 DEF Runs, w
<1>21. BrokerTypes'
  <2>1. \A p \in Places : place'[p].st = "free" => ~place'[p].subscribed
    BY <1>5, <1>6 DEF UpstreamInv, BrokerTypes
  <2> QED BY <1>2, <1>6, <1>14, <2>1 DEF UpstreamInv, BrokerTypes, w
<1>22. TaskTypes' /\ OtherTypes'
  BY <1>2 DEF UpstreamInv, TaskTypes, OtherTypes, registry
<1> QED BY <1>1, <1>2, <1>20, <1>21, <1>22 DEF UpstreamInv, Between

(* The broker sends the next change. *)
LEMMA NotifiesKeeps == UpstreamInv /\ BrokerNotifies => UpstreamInv'
<1> SUFFICES ASSUME UpstreamInv, BrokerNotifies PROVE UpstreamInv'
  OBVIOUS
<1> DEFINE pl == place[socket]
           f == Frame("x-notification", pl.next, pl.next - pl.base)
<1>1. Open /\ pl.subscribed /\ pl.next <= log /\ fromBroker' = Append(fromBroker, f)
  BY DEF BrokerNotifies, Send
<1>2. pl \in PlaceType /\ log \in Nat /\ place \in [Places -> PlaceType] /\ socket \in Places
  BY <1>1, OpenRuns, RunsFacts DEF UpstreamInv, BrokerTypes
<1>3. pl.next \in Nat /\ pl.base \in Nat /\ pl.next + 1 \in Nat
  BY <1>2 DEF PlaceType
<1>4. place' = [place EXCEPT ![socket].next = pl.next + 1]
  BY DEF BrokerNotifies
<1>5. pl.next > pl.base
  <2>1. PICK x : Ready(x, pl)
    BY <1>1, OpenRuns, RunsFacts DEF Connection
  <2> QED BY <1>1, <2>1 DEF Ready
<1>6. f \in Notes /\ f.op = "x-notification" /\ f.id = pl.next /\ f.n = pl.next - pl.base
  BY <1>3, <1>5 DEF Frame, Notes
<1> DEFINE pm == [pl EXCEPT !.next = pl.next + 1]
<1>7. pm.subscribed /\ pm.base = pl.base /\ pm.next = pl.next + 1
  BY <1>1, <1>2 DEF PlaceType
<1> HIDE DEF pl, f, pm
<1>8. ASSUME NEW x \in Heard, Sound(x, pl, log), Ready(x, pl)
      PROVE  Legal(x, f) /\ Sound(Hears(x, f), pl, log) /\ Ready(Hears(x, f), pm)
  <2> DEFINE y == Hears(x, f)
  <2>1. y = HearsNote(x, f) /\ x.pos \in Nat /\ x.seq \in Nat
    BY <1>6, HeardAs DEF Frames, Heard
  <2>2. /\ y.pos = (IF x.started THEN pl.next ELSE x.pos)
        /\ y.told = (~x.started /\ x.told) /\ y.forgotten = (~x.started /\ x.forgotten)
        /\ y.started = x.started /\ y.seq = pl.next - pl.base /\ y.answered = x.answered
    BY <1>6, <2>1 DEF HearsNote
  <2> HIDE DEF y
  <2>3. x.pos < pl.next /\ (x.started => pl.next = x.pos + 1 \/ Warned(x))
    BY <1>1, <1>8 DEF Ready
  <2>4. Legal(x, f)
    BY <1>3, <1>6, <2>1, <2>3 DEF Legal
  <2>5. Sound(y, pl, log)
    <3>1. CASE x.started
      BY <1>1, <1>2, <1>3, <1>5, <1>8, <2>1, <2>2, <3>1 DEF Sound
    <3>2. CASE ~x.started
      <4>1. /\ y.pos = x.pos /\ y.told = x.told /\ y.forgotten = x.forgotten /\ ~y.started
            /\ ~x.answered /\ ~y.answered
        <5>1. x.told \in BOOLEAN /\ x.forgotten \in BOOLEAN
          BY <1>8 DEF Heard
        <5> QED BY <1>8, <2>2, <3>2, <5>1 DEF Sound
      <4> QED BY <1>1, <1>2, <1>3, <1>5, <1>8, <2>1, <2>2, <2>3, <3>2, <4>1 DEF Sound
    <3> QED BY <3>1, <3>2
  <2>6. Ready(y, pm)
    BY <1>3, <1>5, <1>7, <2>1, <2>2, <2>3 DEF Ready
  <2> QED BY <2>4, <2>5, <2>6 DEF y
<1>9. UNCHANGED <<log, socket, toBroker, task, refused, feed, registry>>
  BY DEF BrokerNotifies
<1>10. Fits(f, pl, pm, log)
  BY <1>8 DEF Fits
<1>11. Tells(f, pl.next + 1)
  BY <1>1, <1>4, <1>6, <1>9, <1>10 DEF Tells, pl, pm, Send
<1> QED BY <1>3, <1>6, <1>11, BrokerTells

(* The broker drops what it had not sent. *)
LEMMA DropsKeeps == UpstreamInv /\ BrokerDrops => UpstreamInv'
<1> SUFFICES ASSUME UpstreamInv, BrokerDrops PROVE UpstreamInv'
  OBVIOUS
<1> DEFINE pl == place[socket]
           f == Frame("x-gap", 0, 0)
<1>1. Open /\ pl.subscribed /\ pl.next <= log /\ fromBroker' = Append(fromBroker, f)
  BY DEF BrokerDrops, Send
<1>2. /\ pl \in PlaceType /\ log \in Nat /\ place \in [Places -> PlaceType] /\ socket \in Places
      /\ log + 1 \in Nat
  BY <1>1, OpenRuns, RunsFacts DEF UpstreamInv, BrokerTypes
<1>3. pl.next \in Nat /\ pl.base \in Nat
  BY <1>2 DEF PlaceType
<1>4. place' = [place EXCEPT ![socket].next = log + 1]
  BY DEF BrokerDrops
<1>5. f \in Signs /\ f.op = "x-gap"
  BY DEF Frame, Signs
<1> DEFINE pm == [pl EXCEPT !.next = log + 1]
<1>6. pm.subscribed /\ pm.base = pl.base /\ pm.next = log + 1
  BY <1>1, <1>2 DEF PlaceType
<1> HIDE DEF pl, f, pm
<1>7. ASSUME NEW x \in Heard, Sound(x, pl, log), Ready(x, pl)
      PROVE  Legal(x, f) /\ Sound(Hears(x, f), pl, log) /\ Ready(Hears(x, f), pm)
  <2> DEFINE y == Hears(x, f)
  <2>1. y = HearsGap(x) /\ x.pos \in Nat /\ x.seq \in Nat
    BY <1>5, HeardAs DEF Frames, Heard
  <2>2. /\ y.pos = x.pos /\ y.told = TRUE /\ y.forgotten = x.forgotten
        /\ y.started = x.started /\ y.seq = x.seq /\ y.answered = x.answered
    BY <2>1 DEF HearsGap
  <2> HIDE DEF y
  <2>3. Legal(x, f)
    BY <1>5 DEF Legal
  <2>4. Sound(y, pl, log)
    BY <1>7, <2>2 DEF Sound, Warned
  <2>5. Ready(y, pm)
    BY <1>1, <1>2, <1>3, <1>6, <1>7, <2>1, <2>2 DEF Ready, Sound, Warned
  <2> QED BY <2>3, <2>4, <2>5 DEF y
<1>8. UNCHANGED <<log, socket, toBroker, task, refused, feed, registry>>
  BY DEF BrokerDrops
<1>9. Fits(f, pl, pm, log)
  BY <1>7 DEF Fits
<1>10. Tells(f, log + 1)
  BY <1>1, <1>4, <1>5, <1>8, <1>9 DEF Tells, pl, pm, Send
<1> QED BY <1>2, <1>5, <1>10, BrokerTells

(* A course of no frame. *)
LEMMA EmptyCourse ==
    ASSUME NEW x \in Heard, NEW pl, NEW n, Sound(x, pl, n), NEW resumes,
           resumes /\ ~x.started => x.forgotten
    PROVE  \E c : Course(c, <<>>, x, pl, n, resumes) /\ c[0] = x
<1> DEFINE c == [i \in 0..0 |-> x]
<1>1. /\ <<>> \in Seq(Frames) /\ Len(<<>>) = 0 /\ \A i \in 0..0 : i = 0
      /\ \A i \in 0..0 : c[i] = x
      /\ c \in [0..0 -> Heard] /\ c[0] = x /\ \A i \in 1..0 : FALSE
  BY EmptySeq
<1> HIDE DEF c
<1>2. Course(c, <<>>, x, pl, n, resumes)
  BY <1>1 DEF Course
<1> QED BY <1>1, <1>2

(* A course of one. *)
LEMMA ShortCourse ==
    ASSUME NEW x \in Heard, NEW pl, NEW n, Sound(x, pl, n), NEW resumes,
           resumes /\ ~x.started => x.forgotten,
           NEW f \in Frames, Legal(x, f), Sound(Hears(x, f), pl, n)
    PROVE  \E c : Course(c, <<f>>, x, pl, n, resumes) /\ c[1] = Hears(x, f)
<1> DEFINE e == <<>>
<1>1. PICK c : Course(c, e, x, pl, n, resumes) /\ c[0] = x
  BY EmptyCourse
<1>2. e \in Seq(Frames) /\ Len(e) = 0 /\ Append(e, f) = <<f>>
  BY EmptySeq
<1> HIDE DEF e
<1>3. c[Len(e)] = x /\ Len(e) + 1 = 1 /\ \A i \in 0..Len(e) : c[i] = x
  BY <1>1, <1>2
<1>4. \A i \in 0..Len(e) : Sound(c[i], pl, n)
  BY <1>3
<1>5. Legal(c[Len(e)], f) /\ Sound(Hears(c[Len(e)], f), pl, n)
  BY <1>3
<1>6. \E d : Course(d, Append(e, f), x, pl, n, resumes) /\ d[Len(e) + 1] = Hears(c[Len(e)], f)
  <2>1. e \in Seq(Frames) /\ Course(c, e, x, pl, n, resumes)
    BY <1>1, <1>2
  <2> QED BY <1>4, <1>5, <2>1, CourseGrows
<1> QED BY <1>2, <1>3, <1>6

(* The broker answers a resume. *)
LEMMA ResumesKeeps == UpstreamInv /\ BrokerResumes => UpstreamInv'
<1> SUFFICES ASSUME UpstreamInv, BrokerResumes PROVE UpstreamInv'
  OBVIOUS
<1> USE BoundAssumption
<1> DEFINE L == Len(fromBroker)
           pl == place[socket]
           at == Head(toBroker).id
           old == place[at]
           yes == Frame("x-result", "resume", 200)
           no == Frame("x-result", "resume", 404)
           moved == [old EXCEPT !.st = "open", !.next = old.base + Head(toBroker).n + 1]
<1>1. pc = "run" /\ Open /\ toBroker # <<>> /\ Head(toBroker).op = "x-resume"
  BY OpenRuns DEF BrokerResumes
<1>2. /\ UNCHANGED <<log, socket, pc, resume, first, started, name, seq, sent_first, refused_on,
                     answered, refused, feed, registry>>
      /\ Now' = Now /\ toBroker' = Tail(toBroker)
  BY DEF BrokerResumes, task, feed, registry, Now
<1>3. IF old.st = "held"
      THEN /\ fromBroker' = Append(fromBroker, yes)
           /\ place' = [place EXCEPT ![at] = Empty, ![socket] = moved]
      ELSE fromBroker' = Append(fromBroker, no) /\ place' = place
  BY DEF BrokerResumes, Send
<1>4. /\ socket \in Places /\ pl \in PlaceType /\ pl.st = "open" /\ log \in Nat
      /\ place \in [Places -> PlaceType] /\ fromBroker \in Seq(Frames) /\ L \in Nat
  BY <1>1, RunsFacts DEF UpstreamInv, BrokerTypes
<1>5. PICK c : /\ Course(c, fromBroker, Now, pl, log, first # Nowhere)
               /\ Ready(c[L], pl)
               /\ Asks(c[L], fromBroker, toBroker, pl, first, place)
  BY <1>1, <1>4, RunsFacts DEF Connection
<1>6. OneQuestion(fromBroker, toBroker, Now.answered, pl, first, sent_first)
  BY <1>1, RunsFacts DEF Connection
<1>7. sent_first /\ ~Now.answered /\ Len(toBroker) = 1
  BY <1>1, <1>4, <1>6, AskedFacts
<1>8. toBroker' = <<>>
  <2>1. toBroker \in Seq(Messages)
    BY DEF UpstreamInv, BrokerTypes
  <2>2. Tail(toBroker) \in Seq(Messages) /\ Len(Tail(toBroker)) = 0
    BY <1>1, <1>7, <2>1, HeadTailProperties
  <2> QED BY <1>2, <2>2, EmptySeq
<1> DEFINE x == Now
<1>9. /\ toBroker[1] = Frame("x-resume", first.at, first.seq) /\ first # Nowhere
      /\ ~pl.subscribed /\ fromBroker = <<>>
      /\ c[0] = x /\ x.seq = first.seq /\ Continues(x, first, place)
  <2>1. Head(toBroker) = toBroker[1]
    BY <1>1
  <2>2. toBroker[1] # Frame("x-subscribe", NoPlace, 0)
    BY <1>1, <2>1 DEF Frame
  <2>3. /\ toBroker[1] = Frame("x-resume", first.at, first.seq) /\ first # Nowhere
        /\ ~pl.subscribed /\ fromBroker = <<>> /\ c[L].seq = first.seq
        /\ Continues(c[L], first, place)
    BY <1>1, <1>5, <2>2 DEF Asks
  <2>4. L = 0 /\ c[0] = x
    BY <1>5, <2>3, EmptySeq DEF Course
  <2> QED BY <2>3, <2>4
<1>10. at = first.at /\ Head(toBroker).n = first.seq
  <2>1. Head(toBroker) = toBroker[1]
    BY <1>1
  <2> QED BY <1>9, <2>1 DEF Frame
<1>11. first.at \in Places /\ first.at # socket /\ first.seq \in Nat /\ x \in Heard /\ old \in PlaceType
  BY <1>4, <1>9, <1>10 DEF UpstreamInv, TaskTypes, Points
<1>12. /\ yes \in Frames /\ yes \in ResumeResults /\ yes.n = 200
       /\ no \in Frames /\ no \in ResumeResults /\ no.n = 404
       /\ yes.op = "x-result" /\ no.op = "x-result" /\ yes.id = "resume" /\ no.id = "resume"
  BY DEF Frame, Frames, ResumeResults
<1>13. ~x.answered /\ Sound(x, pl, log) /\ (~x.started => x.forgotten)
  <2>1. 0 \in 0..L
    BY <1>4
  <2>2. Sound(c[0], pl, log)
    BY <1>5, <2>1 DEF Course
  <2> QED BY <1>7, <1>9, <2>2 DEF Continues
<1>14. /\ x.pos \in Nat /\ x.seq \in Nat /\ x.told \in BOOLEAN /\ x.forgotten \in BOOLEAN
       /\ x.started \in BOOLEAN /\ x.answered \in BOOLEAN
  BY <1>11 DEF Heard
<1> HIDE DEF x, pl, yes, no, at, moved, old
<1>15. ASSUME old.st = "held"
       PROVE  BrokerTypes' /\ Runs'
  <2>1. /\ fromBroker' = <<yes>> /\ place' = [place EXCEPT ![at] = Empty, ![socket] = moved]
    BY <1>3, <1>9, <1>15
  <2>2. /\ moved \in PlaceType /\ moved.st = "open" /\ moved.subscribed = old.subscribed
        /\ moved.base = old.base /\ moved.next = old.base + first.seq + 1
        /\ old.base \in Nat /\ Empty \in PlaceType /\ ~Empty.subscribed
    <3>1. old.base \in Nat /\ old.base + first.seq + 1 \in Nat
      BY <1>11 DEF PlaceType
    <3>2. moved = [old EXCEPT !.st = "open", !.next = old.base + first.seq + 1]
      BY <1>10 DEF moved
    <3> QED BY <1>11, <3>1, <3>2 DEF PlaceType, Empty
  <2>3. /\ place'[socket] = moved /\ place' \in [Places -> PlaceType]
        /\ \A p \in Places : p # socket => place'[p] = Empty \/ place'[p] = place[p]
    BY <1>4, <1>10, <1>11, <2>1, <2>2
  <2>4. IF old.subscribed
        THEN /\ old.base + first.seq >= x.pos
             /\ old.base + first.seq = x.pos \/ Warned(x)
             /\ ~x.started => old.base >= x.pos
        ELSE x.forgotten
    BY <1>9, <1>10, <1>15 DEF Continues, old
  <2>5. Legal(x, yes) /\ Sound(x, moved, log)
    BY <1>9, <1>12, <1>13, <1>14, <2>2, <2>4 DEF Legal, Sound
  <2> DEFINE y == Hears(x, yes)
  <2>6. y = HearsResume(x, yes) /\ (Accepts(x, yes) <=> x.started)
    BY <1>12, HeardAs DEF Accepts, Success
  <2>7. Sound(y, moved, log) /\ Ready(y, moved)
    <3>1. CASE x.started
      <4>1. /\ y.pos = x.pos /\ y.told = x.told /\ y.forgotten = x.forgotten /\ y.started
            /\ y.seq = x.seq /\ y.answered
        BY <2>6, <3>1 DEF HearsResume
      <4> HIDE DEF y
      <4> QED BY <1>9, <1>11, <1>13, <1>14, <2>2, <2>4, <3>1, <4>1 DEF Sound, Ready, Warned
    <3>2. CASE ~x.started
      <4>1. /\ y.pos = x.pos /\ y.told = TRUE /\ y.forgotten = x.forgotten /\ ~y.started
            /\ y.seq = 0 /\ ~y.answered
        BY <1>13, <2>6, <3>2 DEF HearsResume
      <4> HIDE DEF y
      <4> QED BY <1>9, <1>11, <1>13, <1>14, <2>2, <2>4, <3>2, <4>1 DEF Sound, Ready, Warned
    <3> QED BY <3>1, <3>2
  <2> HIDE DEF y
  <2>8. PICK d : Course(d, <<yes>>, x, moved, log, first # Nowhere) /\ d[1] = y
    <3>1. first # Nowhere /\ ~x.started => x.forgotten
      BY <1>13
    <3>2. Sound(Hears(x, yes), moved, log)
      BY <2>7 DEF y
    <3> DEFINE r == first # Nowhere
    <3>3. r /\ ~x.started => x.forgotten
      BY <3>1
    <3>4. Sound(x, moved, log) /\ Legal(x, yes) /\ x \in Heard /\ yes \in Frames
      BY <1>11, <1>12, <1>13, <2>5
    <3> HIDE DEF r
    <3>5. \E d : Course(d, <<yes>>, x, moved, log, r) /\ d[1] = Hears(x, yes)
      BY <3>2, <3>3, <3>4, ShortCourse
    <3> QED BY <3>5 DEF r, y
  <2> DEFINE w == <<yes>>
  <2>9. Len(w) = 1 /\ w[1] = yes /\ \A i \in 1..1 : i = 1
    OBVIOUS
  <2> HIDE DEF w
  <2>10. Asks(y, w, <<>>, moved, first, place')
    BY <1>12, <2>9 DEF Asks
  <2>11. OneQuestion(w, <<>>, x.answered, moved, first, sent_first)
    BY <1>7, <1>9, <1>12, <1>13, <2>9 DEF OneQuestion
  <2>12. Connection(x, w, <<>>, place', socket, log, first, sent_first)
    BY <2>3, <2>7, <2>8, <2>9, <2>10, <2>11 DEF Connection, w
  <2>13. Runs'
    BY <1>2, <1>8, <2>1, <2>12 DEF Runs, w, x
  <2>14. BrokerTypes'
    <3>1. \A p \in Places : place'[p].st = "free" => ~place'[p].subscribed
      BY <2>2, <2>3 DEF UpstreamInv, BrokerTypes
    <3>2. <<>> \in Seq(Messages) /\ <<yes>> \in Seq(Frames)
      BY <1>12, EmptySeq
    <3> QED BY <1>2, <1>8, <2>1, <2>3, <3>1, <3>2 DEF UpstreamInv, BrokerTypes
  <2> QED BY <2>13, <2>14
<1>16. ASSUME old.st # "held"
       PROVE  BrokerTypes' /\ Runs'
  <2>1. fromBroker' = <<no>> /\ place' = place
    BY <1>3, <1>9, <1>16
  <2>2. Legal(x, no)
    BY <1>12 DEF Legal
  <2> DEFINE y == Hears(x, no)
  <2>3. y = HearsResume(x, no) /\ ~Accepts(x, no)
    BY <1>12, HeardAs DEF Accepts, Success
  <2>4. /\ y.pos = x.pos /\ y.told = TRUE /\ y.forgotten = x.forgotten /\ y.started = x.started
        /\ y.seq = 0 /\ ~y.answered
    BY <1>13, <2>3 DEF HearsResume
  <2> HIDE DEF y
  <2>5. Sound(y, pl, log) /\ Ready(y, pl)
    BY <1>9, <1>13, <1>14, <2>4 DEF Sound, Ready
  <2>6. PICK d : Course(d, <<no>>, x, pl, log, first # Nowhere) /\ d[1] = y
    <3>1. first # Nowhere /\ ~x.started => x.forgotten
      BY <1>13
    <3>2. Sound(Hears(x, no), pl, log)
      BY <2>5 DEF y
    <3> DEFINE r == first # Nowhere
    <3>3. r /\ ~x.started => x.forgotten
      BY <3>1
    <3>4. Sound(x, pl, log) /\ Legal(x, no) /\ x \in Heard /\ no \in Frames
      BY <1>11, <1>12, <1>13, <2>2
    <3> HIDE DEF r
    <3>5. \E d : Course(d, <<no>>, x, pl, log, r) /\ d[1] = Hears(x, no)
      BY <3>2, <3>3, <3>4, ShortCourse
    <3> QED BY <3>5 DEF r, y
  <2> DEFINE w == <<no>>
  <2>7. Len(w) = 1 /\ w[1] = no /\ \A i \in 1..1 : i = 1
    OBVIOUS
  <2> HIDE DEF w
  <2>8. Asks(y, w, <<>>, pl, first, place)
    BY <1>12, <2>7 DEF Asks
  <2>9. OneQuestion(w, <<>>, x.answered, pl, first, sent_first)
    BY <1>7, <1>9, <1>12, <1>13, <2>7 DEF OneQuestion
  <2>10. Connection(x, w, <<>>, place, socket, log, first, sent_first)
    BY <2>5, <2>6, <2>7, <2>8, <2>9 DEF Connection, w, pl
  <2>11. Runs'
    BY <1>2, <1>8, <2>1, <2>10 DEF Runs, w, x
  <2>12. BrokerTypes'
    <3>1. <<>> \in Seq(Messages) /\ <<no>> \in Seq(Frames)
      BY <1>12, EmptySeq
    <3> QED BY <1>2, <1>8, <2>1, <3>1 DEF UpstreamInv, BrokerTypes
  <2> QED BY <2>11, <2>12
<1>17. TaskTypes' /\ OtherTypes'
  BY <1>2 DEF UpstreamInv, TaskTypes, OtherTypes, registry
<1> QED BY <1>1, <1>2, <1>15, <1>16, <1>17 DEF UpstreamInv, Between

-----------------------------------------------------------------------------
(* The task, between two connections. *)

Waits == Stops \/ Stays \/ ConnectFails \/ Slept \/ HoldRecheck \/ HoldLook

LEMMA WaitsKeeps == UpstreamInv /\ Waits => UpstreamInv'
<1> SUFFICES ASSUME UpstreamInv, Waits PROVE UpstreamInv'
  OBVIOUS
<1>1. /\ UNCHANGED <<broker, resume, first, started, name, seq, sent_first, answered, refused, feed,
                     clients, record>>
      /\ pc # "run" /\ pc' # "run"
  BY DEF Waits, Stops, Stays, ConnectFails, Slept, HoldRecheck, HoldLook, registry
<1>2. Now' = Now
  BY <1>1 DEF Now, feed
<1>3. /\ pc' \in {"top", "connecting", "sleep", "run", "hold", "hold_look", "stopped"}
      /\ pc' = "connecting" => registered
  BY DEF Waits, Stops, Stays, ConnectFails, Slept, HoldRecheck, HoldLook
<1>4. registered' \in BOOLEAN /\ (registered' => registered)
  <2>1. registered' = registered \/ registered' = FALSE
    BY DEF Waits, Stops, Stays, ConnectFails, Slept, HoldRecheck, HoldLook, Leave, LeaveIfIdle,
           registry
  <2>2. registered \in BOOLEAN
    BY DEF UpstreamInv, OtherTypes
  <2>3. CASE registered' = registered
    BY <2>2, <2>3
  <2>4. CASE registered' = FALSE
    BY <2>4
  <2> QED BY <2>1, <2>3, <2>4
<1>5. BrokerTypes'
  BY <1>1 DEF UpstreamInv, BrokerTypes, broker
<1>6. TaskTypes'
  BY <1>1, <1>2, <1>3 DEF UpstreamInv, TaskTypes, broker
<1>7. OtherTypes'
  BY <1>1, <1>4 DEF UpstreamInv, OtherTypes
<1>8. Between'
  <2>1. /\ ~answered /\ pos <= log /\ (~started => told)
        /\ registered \/ pc = "connecting" => Continues(Now, resume, place)
    BY <1>1 DEF UpstreamInv, Between
  <2>2. registered' \/ pc' = "connecting" => registered
    BY <1>3, <1>4
  <2> QED BY <1>1, <1>2, <2>1, <2>2 DEF Between, broker, feed
<1>9. Runs'
  BY <1>1 DEF Runs
<1> QED BY <1>5, <1>6, <1>7, <1>8, <1>9 DEF UpstreamInv

(* The broker takes the connection. *)
LEMMA ConnectsKeeps == UpstreamInv /\ Connects => UpstreamInv'
<1> SUFFICES ASSUME UpstreamInv, Connects PROVE UpstreamInv'
  OBVIOUS
<1> USE BoundAssumption, PlacesAssumption
<1>1. PICK p \in Places \ {resume.at} :
        place[p].st = "free" /\ place' = [place EXCEPT ![p].st = "open"] /\ socket' = p
  BY DEF Connects
<1> DEFINE welcome == Frame("x-welcome", 0, 0)
           pm == [place[p] EXCEPT !.st = "open"]
           x == Now'
<1>2. /\ pc = "connecting" /\ pc' = "run" /\ toBroker' = <<>> /\ fromBroker' = <<welcome>>
      /\ first' = resume /\ resume' = Nowhere /\ name' = NoPlace /\ seq' = resume.seq
      /\ sent_first' = FALSE /\ answered' = FALSE
      /\ UNCHANGED <<log, started, refused, pos, told, forgotten, registered, record, clients>>
  BY DEF Connects, feed, registry
<1>3. /\ place \in [Places -> PlaceType] /\ place[p] \in PlaceType /\ ~place[p].subscribed
      /\ log \in 0..MaxChanges /\ log \in Nat
  BY <1>1 DEF UpstreamInv, BrokerTypes
<1>4. /\ pm \in PlaceType /\ pm.st = "open" /\ ~pm.subscribed
      /\ place'[p] = pm /\ place' \in [Places -> PlaceType]
      /\ \A q \in Places : q # p => place'[q] = place[q]
  BY <1>1, <1>3 DEF PlaceType
<1>5. /\ Now \in Heard /\ resume \in Points /\ (resume # Nowhere => resume.at \in Places)
      /\ resume.seq \in Nat
  BY DEF UpstreamInv, TaskTypes, Points
<1>6. /\ pos <= log /\ (~started => told) /\ Continues(Now, resume, place)
  BY <1>2 DEF UpstreamInv, Between
<1>7. /\ x = [pos |-> pos, told |-> told, forgotten |-> forgotten, started |-> started,
              seq |-> resume.seq, answered |-> FALSE]
      /\ x \in Heard
  BY <1>2, <1>5 DEF Now, Heard
<1>8. welcome \in Frames /\ welcome \in Signs /\ welcome.op = "x-welcome"
  BY DEF Frame, Frames, Signs
<1> HIDE DEF x, welcome, pm
<1>9. Legal(x, welcome) /\ Hears(x, welcome) = x
  BY <1>8 DEF Legal, Hears
<1>10. Sound(x, pm, log) /\ Ready(x, pm)
  BY <1>4, <1>6, <1>7 DEF Sound, Ready
<1>11. Continues(x, resume, place')
  <2>1. CASE resume = Nowhere
    BY <1>6, <1>7, <2>1 DEF Continues, Now, Warned
  <2>2. CASE resume # Nowhere
    <3>1. resume.at \in Places /\ resume.at # p
      BY <1>1, <1>5, <2>2
    <3>2. place'[resume.at] = place[resume.at]
      BY <1>4, <3>1
    <3> QED BY <1>6, <1>7, <2>2, <3>1, <3>2 DEF Continues, Now, Warned
  <2> QED BY <2>1, <2>2
<1>12. PICK c : Course(c, <<welcome>>, x, pm, log, resume # Nowhere) /\ c[1] = x
  <2> DEFINE r == resume # Nowhere
  <2>1. r /\ ~x.started => x.forgotten
    BY <1>11 DEF Continues
  <2> HIDE DEF r
  <2>2. Sound(Hears(x, welcome), pm, log)
    BY <1>9, <1>10
  <2>3. \E c : Course(c, <<welcome>>, x, pm, log, r) /\ c[1] = Hears(x, welcome)
    BY <1>7, <1>8, <1>9, <1>10, <2>1, <2>2, ShortCourse
  <2> QED BY <1>9, <2>3 DEF r
<1> DEFINE w == <<welcome>>
<1>13. Len(w) = 1 /\ w[1] = welcome /\ \A i \in 1..1 : i = 1
  OBVIOUS
<1> HIDE DEF w
<1>14. Asks(x, w, <<>>, pm, resume, place')
  BY <1>4, <1>7, <1>11 DEF Asks
<1>15. OneQuestion(w, <<>>, x.answered, pm, resume, FALSE)
  BY <1>7, <1>8, <1>13 DEF OneQuestion
<1>16. Connection(x, w, <<>>, place', p, log, resume, FALSE)
  BY <1>4, <1>10, <1>12, <1>13, <1>14, <1>15 DEF Connection, w
<1>17. Runs'
  BY <1>1, <1>2, <1>16 DEF Runs, w, x
<1>18. BrokerTypes'
  <2>1. <<>> \in Seq(Messages) /\ <<welcome>> \in Seq(Frames)
    BY <1>8, EmptySeq
  <2>2. \A q \in Places : place'[q].st = "free" => ~place'[q].subscribed
    BY <1>4 DEF UpstreamInv, BrokerTypes
  <2> QED BY <1>1, <1>2, <1>3, <1>4, <2>1, <2>2 DEF BrokerTypes
<1>19. TaskTypes'
  <2>1. socket' # NoPlace /\ name' # socket'
    BY <1>1, <1>2
  <2>2. resume' \in Points /\ resume' = Nowhere
    BY <1>2 DEF Points, Nowhere
  <2>3. first' \in Points /\ (first' # Nowhere => first'.at \in Places \ {socket'})
    BY <1>1, <1>2, <1>5
  <2> QED BY <1>2, <1>7, <2>1, <2>2, <2>3 DEF TaskTypes, x
<1>20. OtherTypes'
  BY <1>2 DEF UpstreamInv, OtherTypes
<1> QED BY <1>2, <1>17, <1>18, <1>19, <1>20 DEF UpstreamInv, Between

-----------------------------------------------------------------------------
(* The task, on a connection. *)

Failing(f) == IsUp(f) /\ ~Success(f.n)

(* The first frame on its way may be heard now. *)
LEMMA HeadFacts ==
    ASSUME UpstreamInv, pc = "run", fromBroker # <<>>
    PROVE  /\ Head(fromBroker) = fromBroker[1] /\ Head(fromBroker) \in Frames
           /\ 1 \in 1..Len(fromBroker) /\ Len(fromBroker) \in Nat \ {0}
           /\ Tail(fromBroker) \in Seq(Frames) /\ Len(Tail(fromBroker)) = Len(fromBroker) - 1
           /\ \A i \in 1..(Len(fromBroker) - 1) : Tail(fromBroker)[i] = fromBroker[i + 1]
           /\ Sound(Now, place[socket], log) /\ Legal(Now, Head(fromBroker))
           /\ OneQuestion(fromBroker, toBroker, answered, place[socket], first, sent_first)
<1>1. /\ fromBroker \in Seq(Frames) /\ Now.answered = answered
      /\ Connection(Now, fromBroker, toBroker, place, socket, log, first, sent_first)
  BY RunsFacts DEF Now
<1>2. /\ Len(fromBroker) \in Nat \ {0} /\ Head(fromBroker) = fromBroker[1]
      /\ Tail(fromBroker) \in Seq(Frames) /\ Len(Tail(fromBroker)) = Len(fromBroker) - 1
      /\ \A i \in 1..(Len(fromBroker) - 1) : Tail(fromBroker)[i] = fromBroker[i + 1]
  BY <1>1, EmptySeq, HeadTailProperties
<1>3. 1 \in 1..Len(fromBroker) /\ 0 \in 0..Len(fromBroker) /\ 1 - 1 = 0
  BY <1>2
<1>4. fromBroker[1] \in Frames
  BY <1>1, <1>3, ElementOfSeq
<1>5. PICK c : Course(c, fromBroker, Now, place[socket], log, first # Nowhere)
  BY <1>1 DEF Connection
<1>6. Sound(c[0], place[socket], log) /\ Legal(c[1 - 1], fromBroker[1]) /\ c[0] = Now
  BY <1>3, <1>5 DEF Course
<1>7. OneQuestion(fromBroker, toBroker, answered, place[socket], first, sent_first)
  BY <1>1 DEF Connection
<1> QED BY <1>2, <1>3, <1>4, <1>6, <1>7

(* The course of the frames behind it. *)
TailCourse(d) ==
    /\ Course(d, Tail(fromBroker), Hears(Now, Head(fromBroker)), place[socket], log,
              first # Nowhere)
    /\ place[socket].st = "open" =>
         /\ Ready(d[Len(Tail(fromBroker))], place[socket])
         /\ Asks(d[Len(Tail(fromBroker))], fromBroker, toBroker, place[socket], first, place)

LEMMA TailFacts ==
    ASSUME UpstreamInv, pc = "run", fromBroker # <<>>, ~Failing(Head(fromBroker))
    PROVE  \E d : TailCourse(d)
<1>1. /\ fromBroker \in Seq(Frames)
      /\ Connection(Now, fromBroker, toBroker, place, socket, log, first, sent_first)
  BY RunsFacts
<1>2. Head(fromBroker) = fromBroker[1]
  BY HeadFacts
<1> DEFINE r == first # Nowhere
<1>3. PICK c : /\ Course(c, fromBroker, Now, place[socket], log, r)
               /\ place[socket].st = "open" =>
                    /\ Ready(c[Len(fromBroker)], place[socket])
                    /\ Asks(c[Len(fromBroker)], fromBroker, toBroker, place[socket], first, place)
  BY <1>1 DEF Connection
<1> HIDE DEF r
<1>4. ~(IsUp(fromBroker[1]) /\ ~Success(fromBroker[1].n))
  BY <1>2 DEF Failing
<1>5. \E d : /\ Course(d, Tail(fromBroker), Hears(Now, fromBroker[1]), place[socket], log, r)
             /\ d[Len(Tail(fromBroker))] = c[Len(fromBroker)]
  BY <1>1, <1>3, <1>4, CourseGoesOn
<1> QED BY <1>2, <1>3, <1>5 DEF r, TailCourse

(* A frame is heard, and nothing is asked. *)
Listens ==
    /\ pc = "run" /\ fromBroker # <<>>
    /\ Head(fromBroker).op # "x-welcome" /\ ~Failing(Head(fromBroker))
    /\ Now' = Hears(Now, Head(fromBroker))
    /\ fromBroker' = Tail(fromBroker)
    /\ UNCHANGED <<log, place, socket, toBroker, pc, resume, first, name, sent_first>>
    /\ refused' \in Statuses \cup {0}
    /\ UNCHANGED <<clients, registered, record>>

LEMMA ListensKeeps == UpstreamInv /\ Listens => UpstreamInv'
<1> SUFFICES ASSUME UpstreamInv, Listens PROVE UpstreamInv'
  OBVIOUS
<1> DEFINE h == Head(fromBroker)
           w == Tail(fromBroker)
           L == Len(fromBroker)
           y == Hears(Now, h)
           pl == place[socket]
<1>1. pc = "run" /\ fromBroker # <<>> /\ h.op # "x-welcome" /\ ~Failing(h)
  BY DEF Listens
<1>2. /\ UNCHANGED <<log, place, socket, toBroker, pc, resume, first, name, sent_first, clients,
                     registered, record>>
      /\ fromBroker' = w /\ Now' = y /\ refused' \in Statuses \cup {0}
  BY DEF Listens
<1>3. /\ h = fromBroker[1] /\ h \in Frames /\ w \in Seq(Frames) /\ L \in Nat \ {0}
      /\ Len(w) = L - 1 /\ \A i \in 1..(L - 1) : w[i] = fromBroker[i + 1]
      /\ OneQuestion(fromBroker, toBroker, answered, pl, first, sent_first)
  BY <1>1, HeadFacts
<1>4. PICK d : TailCourse(d)
  BY <1>1, TailFacts
<1>5. Now \in Heard /\ y \in Heard /\ Now.answered = answered
  BY <1>1, <1>3, HearsType, RunsFacts DEF Now
<1>6. h.op # "x-result" => y.answered = answered
  BY <1>3, <1>5, HearsFacts
<1>16. /\ Course(d, w, y, pl, log, first # Nowhere)
       /\ pl.st = "open" =>
            Ready(d[Len(w)], pl) /\ Asks(d[Len(w)], fromBroker, toBroker, pl, first, place)
  BY <1>4 DEF TailCourse
<1> HIDE DEF h, w, y, L, pl
<1>7. \A i \in 1..Len(w) : /\ i + 1 \in 1..L /\ w[i] = fromBroker[i + 1] /\ i + 1 # 1
                           /\ w[i].op # "x-welcome"
                           /\ 1 \in 1..L
  <2> SUFFICES ASSUME NEW i \in 1..Len(w)
               PROVE  /\ i + 1 \in 1..L /\ w[i] = fromBroker[i + 1] /\ i + 1 # 1
                      /\ w[i].op # "x-welcome" /\ 1 \in 1..L
    OBVIOUS
  <2>1. i + 1 \in 1..L /\ w[i] = fromBroker[i + 1] /\ i + 1 # 1 /\ 1 \in 1..L
    BY <1>3
  <2>2. fromBroker[i + 1].op # "x-welcome"
    BY <1>3, <2>1 DEF OneQuestion, L
  <2> QED BY <2>1, <2>2
<1>8. h.op = "x-result" => /\ toBroker = <<>> /\ sent_first /\ ~answered
                           /\ \A i \in 1..Len(w) : w[i].op # "x-result"
  <2> SUFFICES ASSUME h.op = "x-result"
               PROVE  /\ toBroker = <<>> /\ sent_first /\ ~answered
                      /\ \A i \in 1..Len(w) : w[i].op # "x-result"
    OBVIOUS
  <2>1. 1 \in 1..L /\ fromBroker[1].op = "x-result"
    BY <1>3
  <2>2. toBroker = <<>> /\ sent_first /\ ~answered
    BY <1>3, <2>1 DEF OneQuestion, L
  <2>3. \A i \in 1..Len(w) : w[i].op # "x-result"
    BY <1>3, <1>7, <2>1 DEF OneQuestion, L
  <2> QED BY <2>2, <2>3
<1>9. OneQuestion(w, toBroker, y.answered, pl, first, sent_first)
  <2>1. CASE h.op = "x-result"
    BY <1>7, <1>8, <2>1 DEF OneQuestion
  <2>2. CASE h.op # "x-result"
    <3>1. y.answered = answered
      BY <1>6, <2>2
    <3>2. ~sent_first => ~answered /\ toBroker = <<>> /\ \A i \in 1..Len(w) : w[i].op # "x-result"
      BY <1>3, <1>7 DEF OneQuestion, L
    <3>3. toBroker # <<>> => /\ Len(toBroker) = 1 /\ pl.st = "open" /\ ~answered
                             /\ \A i \in 1..Len(w) : w[i].op # "x-result"
      BY <1>3, <1>7 DEF OneQuestion, L
    <3>4. ASSUME NEW i \in 1..Len(w), NEW j \in 1..Len(w), w[i].op = "x-result", w[j].op = "x-result"
          PROVE  i = j
      <4>1. \A k, l \in 1..L :
               fromBroker[k].op = "x-result" /\ fromBroker[l].op = "x-result" => k = l
        BY <1>3 DEF OneQuestion, L
      <4>2. i + 1 \in 1..L /\ j + 1 \in 1..L /\ w[i] = fromBroker[i + 1] /\ w[j] = fromBroker[j + 1]
        BY <1>7
      <4>3. i + 1 = j + 1
        BY <3>4, <4>1, <4>2
      <4>4. i \in Int /\ j \in Int
        OBVIOUS
      <4> QED BY <4>3, <4>4
    <3>5. \A i \in 1..Len(w) : w[i].op = "x-result" => ~answered
      BY <1>3, <1>7 DEF OneQuestion, L
    <3>6. ASSUME NEW i \in 1..Len(w), w[i].op = "x-result", w[i].id = "resume"
          PROVE  /\ first # Nowhere
                 /\ w[i].n = 404 => ~pl.subscribed /\ (i = Len(w) \/ pl.st # "open")
      <4>1. /\ first # Nowhere
            /\ w[i].n = 404 => ~pl.subscribed /\ (i + 1 = L \/ pl.st # "open")
        BY <1>3, <1>7, <3>6 DEF OneQuestion, L
      <4>2. i + 1 = L => i = Len(w)
        BY <1>3
      <4> QED BY <4>1, <4>2
    <3> QED BY <1>7, <3>1, <3>2, <3>3, <3>4, <3>5, <3>6 DEF OneQuestion
  <2> QED BY <2>1, <2>2
<1>10. pl.st = "open" => Asks(d[Len(w)], w, toBroker, pl, first, place)
  <2>1. w # <<>> => w[1].op # "x-welcome"
    <3>1. w # <<>> => 1 \in 1..Len(w)
      BY <1>3, EmptySeq
    <3> QED BY <1>7, <3>1
  <2> QED BY <1>1, <1>16, <2>1 DEF Asks
<1>11. Connection(y, w, toBroker, place, socket, log, first, sent_first)
  BY <1>9, <1>10, <1>16 DEF Connection, pl
<1>12. Runs'
  BY <1>2, <1>11 DEF Runs
<1>13. BrokerTypes'
  BY <1>2, <1>3 DEF UpstreamInv, BrokerTypes
<1>14. TaskTypes'
  BY <1>2, <1>5 DEF UpstreamInv, TaskTypes
<1>15. OtherTypes'
  BY <1>2 DEF UpstreamInv, OtherTypes
<1> QED BY <1>1, <1>2, <1>12, <1>13, <1>14, <1>15 DEF UpstreamInv, Between

(* The types of what the task has heard. *)
LEMMA NowTypes ==
    ASSUME UpstreamInv
    PROVE  /\ Now \in Heard /\ pos \in Nat /\ told \in BOOLEAN /\ forgotten \in BOOLEAN
           /\ started \in BOOLEAN /\ seq \in Nat /\ answered \in BOOLEAN
           /\ Now.pos = pos /\ Now.told = told /\ Now.forgotten = forgotten
           /\ Now.started = started /\ Now.seq = seq /\ Now.answered = answered
           /\ refused \in Statuses \cup {0}
  BY DEF UpstreamInv, TaskTypes, OtherTypes, Now, Heard

(* The sort of a result that is on its way. *)
LEMMA ResultSorts ==
    ASSUME NEW f \in Frames, f.op = "x-result"
    PROVE  \/ f \in ResumeResults /\ f.id = "resume" /\ f.id # "up" /\ ~IsUp(f)
           \/ f \in UpResults /\ f.id = "up" /\ f.id # "resume" /\ IsUp(f)
              /\ f.base \in Nat /\ f.n \in Statuses
<1>1. f \in ResumeResults \/ f \in UpResults
  BY DEF Frames, Signs, Notes
<1>2. f \in ResumeResults => f.id = "resume" /\ f.id # "up" /\ ~IsUp(f)
  BY DEF ResumeResults, IsUp
<1>3. f \in UpResults => /\ f.id = "up" /\ f.id # "resume" /\ IsUp(f) /\ f.base \in Nat
                         /\ f.n \in Statuses
  BY DEF UpResults, IsUp
<1> QED BY <1>1, <1>2, <1>3

(* The answer to the first message of a started fan-out. *)
LEMMA AcceptedListens ==
    UpstreamInv /\ Running("x-result") /\ Accepted(Head(fromBroker).n) => Listens
<1> SUFFICES ASSUME UpstreamInv, Running("x-result"), Accepted(Head(fromBroker).n)
             PROVE  Listens
  OBVIOUS
<1> DEFINE h == Head(fromBroker)
<1>1. pc = "run" /\ fromBroker # <<>> /\ h.op = "x-result"
  BY DEF Running
<1>2. /\ Success(h.n) /\ started /\ fromBroker' = Tail(fromBroker) /\ answered' = TRUE
      /\ UNCHANGED <<log, place, socket, toBroker, pc, resume, first, name, sent_first, started, seq,
                     refused, pos, told, forgotten, clients, registered, record>>
  BY DEF Accepted, feed, registry
<1>3. h \in Frames
  BY <1>1, HeadFacts
<1> HIDE DEF h
<1>4. Now' = [pos |-> pos, told |-> told, forgotten |-> forgotten, started |-> started,
              seq |-> seq, answered |-> TRUE]
  BY <1>2 DEF Now
<1>5. Hears(Now, h) = Now'
  <2>1. CASE h \in ResumeResults
    <3>1. Hears(Now, h) = HearsResume(Now, h) /\ Accepts(Now, h)
      BY <1>2, <1>3, <2>1, HeardAs, NowTypes DEF Accepts
    <3> QED BY <1>4, <3>1, NowTypes DEF HearsResume
  <2>2. CASE h \in UpResults
    <3>1. Hears(Now, h) = HearsUp(Now, h) /\ Accepts(Now, h)
      BY <1>2, <1>3, <2>2, HeardAs, NowTypes DEF Accepts
    <3>2. started = TRUE /\ (started /\ told) = told
      BY <1>2, NowTypes
    <3> QED BY <1>4, <3>1, <3>2, NowTypes DEF HearsUp
  <2> QED BY <1>1, <1>3, <2>1, <2>2, ResultSorts
<1> QED BY <1>1, <1>2, <1>5, NowTypes DEF Listens, Failing, h

(* The fan-out starts. *)
LEMMA FirstAcceptedListens ==
    UpstreamInv /\ Running("x-result") /\ FirstAccepted(Head(fromBroker).n) => Listens
<1> SUFFICES ASSUME UpstreamInv, Running("x-result"), FirstAccepted(Head(fromBroker).n)
             PROVE  Listens
  OBVIOUS
<1> DEFINE h == Head(fromBroker)
<1>1. pc = "run" /\ fromBroker # <<>> /\ h.op = "x-result"
  BY DEF Running
<1>2. /\ h.id = "up" /\ Success(h.n) /\ ~started /\ fromBroker' = Tail(fromBroker)
      /\ answered' = TRUE /\ started' = TRUE /\ refused' = 0 /\ pos' = h.base /\ told' = FALSE
      /\ UNCHANGED <<log, place, socket, toBroker, pc, resume, first, name, sent_first, seq,
                     forgotten, clients, registered, record>>
  BY DEF FirstAccepted, registry
<1>3. h \in Frames
  BY <1>1, HeadFacts
<1> HIDE DEF h
<1>4. Now' = [pos |-> h.base, told |-> FALSE, forgotten |-> forgotten, started |-> TRUE,
              seq |-> seq, answered |-> TRUE]
  BY <1>2 DEF Now
<1>5. Hears(Now, h) = Now'
  <2>1. h \in UpResults
    BY <1>1, <1>2, <1>3, ResultSorts
  <2>2. Hears(Now, h) = HearsUp(Now, h) /\ Accepts(Now, h)
    BY <1>2, <1>3, <2>1, HeardAs DEF Accepts
  <2>3. ~Now.started
    BY <1>2, NowTypes
  <2> QED BY <1>4, <2>2, <2>3, NowTypes DEF HearsUp
<1> QED BY <1>1, <1>2, <1>5 DEF Listens, Failing, h

(* A change is applied. *)
LEMMA NotificationListens == UpstreamInv /\ Notification => Listens
<1> SUFFICES ASSUME UpstreamInv, Notification PROVE Listens
  OBVIOUS
<1> DEFINE h == Head(fromBroker)
<1>1. pc = "run" /\ fromBroker # <<>> /\ h.op = "x-notification"
  BY DEF Notification, Running
<1>2. /\ seq' = h.n /\ fromBroker' = Tail(fromBroker)
      /\ IF started THEN pos' = h.id /\ told' = FALSE /\ forgotten' = FALSE
                    ELSE UNCHANGED <<pos, told, forgotten>>
      /\ UNCHANGED <<log, place, socket, toBroker, pc, resume, first, name, sent_first, started,
                     answered, refused, clients, registered, record>>
  BY DEF Notification, feed, registry
<1>3. h \in Frames
  BY <1>1, HeadFacts
<1> HIDE DEF h
<1>4. h \in Notes
  BY <1>1, <1>3 DEF Frames, Signs, ResumeResults, UpResults
<1>5. Hears(Now, h) = HearsNote(Now, h)
  BY <1>3, <1>4, HeardAs
<1>6. HearsNote(Now, h) = Now'
  <2>1. CASE started
    BY <1>2, <2>1, NowTypes DEF HearsNote, Now
  <2>2. CASE ~started
    <3>1. (~started /\ told) = told /\ (~started /\ forgotten) = forgotten
      BY <2>2, NowTypes
    <3> QED BY <1>2, <2>2, <3>1, NowTypes DEF HearsNote, Now
  <2> QED BY <2>1, <2>2, NowTypes
<1> QED BY <1>1, <1>2, <1>5, <1>6, NowTypes DEF Listens, Failing, IsUp, h

(* A gap is told. *)
LEMMA GapListens == UpstreamInv /\ Gap => Listens
<1> SUFFICES ASSUME UpstreamInv, Gap PROVE Listens
  OBVIOUS
<1> DEFINE h == Head(fromBroker)
<1>1. pc = "run" /\ fromBroker # <<>> /\ h.op = "x-gap"
  BY DEF Gap, Running
<1>2. /\ fromBroker' = Tail(fromBroker) /\ told' = TRUE
      /\ UNCHANGED <<log, place, socket, toBroker, pc, resume, first, name, sent_first, started, seq,
                     answered, pos, forgotten, refused, clients, registered, record>>
  BY DEF Gap, hub_gap, task, registry
<1>3. h \in Frames
  BY <1>1, HeadFacts
<1> HIDE DEF h
<1>4. h \in Signs
  BY <1>1, <1>3 DEF Frames, Notes, ResumeResults, UpResults
<1>5. Hears(Now, h) = HearsGap(Now)
  BY <1>1, <1>3, <1>4, HeardAs
<1>6. HearsGap(Now) = Now'
  BY <1>2 DEF HearsGap, Now
<1> QED BY <1>1, <1>2, <1>5, <1>6, NowTypes DEF Listens, Failing, IsUp, h

(* The first message is sent. *)
LEMMA WelcomeKeeps == UpstreamInv /\ Welcome => UpstreamInv'
<1> SUFFICES ASSUME UpstreamInv, Welcome PROVE UpstreamInv'
  OBVIOUS
<1> DEFINE h == Head(fromBroker)
           w == Tail(fromBroker)
           L == Len(fromBroker)
           pl == place[socket]
<1>1. pc = "run" /\ fromBroker # <<>> /\ h.op = "x-welcome"
  BY DEF Welcome, Running
<1>2. /\ fromBroker' = w /\ name' = socket /\ sent_first' = TRUE
      /\ toBroker' = IF Open /\ ~sent_first THEN Append(toBroker, FirstMessage) ELSE toBroker
      /\ UNCHANGED <<log, place, socket, pc, resume, first, started, seq, answered, refused, pos, told,
                     forgotten, clients, registered, record>>
      /\ Now' = Now
  BY DEF Welcome, feed, registry, Now
<1>3. /\ h = fromBroker[1] /\ h \in Frames /\ w \in Seq(Frames) /\ L \in Nat \ {0}
      /\ Len(w) = L - 1 /\ \A i \in 1..(L - 1) : w[i] = fromBroker[i + 1]
      /\ 1 \in 1..L
      /\ OneQuestion(fromBroker, toBroker, answered, pl, first, sent_first)
      /\ Sound(Now, pl, log)
  BY <1>1, HeadFacts
<1>4. ~Failing(h) /\ Hears(Now, h) = Now
  <2>1. h \in Signs
    BY <1>1, <1>3 DEF Frames, Notes, ResumeResults, UpResults
  <2> QED BY <1>1, <1>3, <2>1, HeardAs DEF Failing, IsUp
<1>5. PICK d : TailCourse(d)
  BY <1>1, <1>4, TailFacts
<1>6. /\ Course(d, w, Now, pl, log, first # Nowhere)
      /\ pl.st = "open" =>
           Ready(d[Len(w)], pl) /\ Asks(d[Len(w)], fromBroker, toBroker, pl, first, place)
  BY <1>4, <1>5 DEF TailCourse
<1>7. /\ socket \in Places /\ (Open <=> pl.st = "open") /\ pl \in PlaceType
      /\ toBroker \in Seq(Messages)
  BY <1>1, RunsFacts DEF UpstreamInv, BrokerTypes
<1> HIDE DEF h, w, L, pl
<1>8. ~sent_first /\ toBroker = <<>> /\ ~answered /\ (pl.st = "open" => L = 1)
      /\ \A i \in 1..L : fromBroker[i].op # "x-result"
  <2>1. ~sent_first /\ (pl.st = "open" => L = 1)
    BY <1>1, <1>3 DEF OneQuestion, L
  <2> QED BY <1>3, <2>1 DEF OneQuestion, L
<1>9. \A i \in 1..Len(w) : w[i].op # "x-welcome" /\ w[i].op # "x-result"
  <2> SUFFICES ASSUME NEW i \in 1..Len(w) PROVE w[i].op # "x-welcome" /\ w[i].op # "x-result"
    OBVIOUS
  <2>1. i + 1 \in 1..L /\ w[i] = fromBroker[i + 1] /\ i + 1 # 1
    BY <1>3
  <2>2. fromBroker[i + 1].op # "x-welcome"
    BY <1>3, <2>1 DEF OneQuestion, L
  <2> QED BY <1>8, <2>1, <2>2
<1>10. Now.answered = answered
  BY NowTypes
<1>11. CASE pl.st # "open"
  <2>1. toBroker' = <<>>
    BY <1>2, <1>7, <1>8, <1>11
  <2>2. OneQuestion(w, <<>>, Now.answered, pl, first, TRUE)
    BY <1>9 DEF OneQuestion
  <2>3. Connection(Now, w, <<>>, place, socket, log, first, TRUE)
    BY <1>6, <1>11, <2>2 DEF Connection, pl
  <2>4. Runs'
    BY <1>2, <2>1, <2>3 DEF Runs
  <2>5. BrokerTypes'
    BY <1>2, <1>3, <1>8, <2>1 DEF UpstreamInv, BrokerTypes
  <2>6. TaskTypes' /\ OtherTypes'
    BY <1>2 DEF UpstreamInv, TaskTypes, OtherTypes
  <2> QED BY <1>1, <1>2, <2>4, <2>5, <2>6 DEF UpstreamInv, Between
<1>12. CASE pl.st = "open"
  <2> DEFINE m == FirstMessage
             asked == <<m>>
  <2>1. toBroker' = <<m>>
    BY <1>2, <1>7, <1>8, <1>12
  <2>2. w = <<>> /\ Len(w) = 0
    BY <1>3, <1>8, <1>12, EmptySeq
  <2>3. d[0] = Now
    BY <1>6 DEF Course
  <2>4. Ready(Now, pl) /\ ~pl.subscribed /\ Now.seq = first.seq /\ Continues(Now, first, place)
    <3>1. Asks(Now, fromBroker, toBroker, pl, first, place) /\ Ready(Now, pl)
      BY <1>6, <1>12, <2>2, <2>3
    <3>2. fromBroker[1].op = "x-welcome"
      BY <1>1, <1>3
    <3> QED BY <1>1, <3>1, <3>2 DEF Asks
  <2>5. first \in Points /\ (first # Nowhere => first.at \in Places)
    BY DEF UpstreamInv, TaskTypes
  <2>6. /\ m \in Messages
        /\ m = IF first = Nowhere THEN Frame("x-subscribe", NoPlace, 0)
                                  ELSE Frame("x-resume", first.at, first.seq)
    BY <2>5 DEF FirstMessage, Frame, Messages, Points
  <2>7. asked # <<>> /\ asked[1] = m /\ Len(asked) = 1
    OBVIOUS
  <2> HIDE DEF m, asked
  <2>8. Asks(Now, w, asked, pl, first, place)
    <3>1. CASE first = Nowhere
      <4>1. Now.seq = 0 /\ (Now.started => Warned(Now))
        BY <2>4, <3>1 DEF Continues, Nowhere
      <4> QED BY <2>2, <2>4, <2>6, <2>7, <3>1, <4>1 DEF Asks
    <3>2. CASE first # Nowhere
      BY <2>2, <2>4, <2>6, <2>7, <3>2 DEF Asks
    <3> QED BY <3>1, <3>2
  <2>9. OneQuestion(w, asked, Now.answered, pl, first, TRUE)
    BY <1>8, <1>9, <1>10, <1>12, <2>7 DEF OneQuestion
  <2>10. Connection(Now, w, asked, place, socket, log, first, TRUE)
    BY <1>6, <2>2, <2>3, <2>4, <2>8, <2>9 DEF Connection, pl
  <2>11. Runs'
    BY <1>2, <2>1, <2>10 DEF Runs, asked
  <2>12. <<m>> \in Seq(Messages)
    BY <2>6
  <2>13. BrokerTypes'
    BY <1>2, <1>3, <2>1, <2>12 DEF UpstreamInv, BrokerTypes
  <2>14. TaskTypes' /\ OtherTypes'
    BY <1>2 DEF UpstreamInv, TaskTypes, OtherTypes
  <2> QED BY <1>1, <1>2, <2>11, <2>13, <2>14 DEF UpstreamInv, Between
<1> QED BY <1>11, <1>12

(* A refused resume is asked again as a subscription. *)
AsksAgain ==
    /\ Running("x-result") /\ Head(fromBroker).id = "resume"
    /\ ~(Success(Head(fromBroker).n) /\ started)
    /\ hub_gap /\ Open
    /\ seq' = 0
    /\ fromBroker' = Tail(fromBroker)
    /\ toBroker' = Append(toBroker, Frame("x-subscribe", NoPlace, 0))
    /\ UNCHANGED <<log, place, socket, pc, resume, first, name, sent_first, refused_on, answered,
                   started, refused, registry>>

LEMMA AsksAgainKeeps == UpstreamInv /\ AsksAgain => UpstreamInv'
<1> SUFFICES ASSUME UpstreamInv, AsksAgain PROVE UpstreamInv'
  OBVIOUS
<1> DEFINE h == Head(fromBroker)
           w == Tail(fromBroker)
           L == Len(fromBroker)
           pl == place[socket]
           m == Frame("x-subscribe", NoPlace, 0)
           y == Now'
<1>1. /\ pc = "run" /\ fromBroker # <<>> /\ h.op = "x-result" /\ h.id = "resume"
      /\ ~(Success(h.n) /\ started) /\ Open
  BY DEF AsksAgain, Running
<1>2. /\ fromBroker' = w /\ toBroker' = Append(toBroker, m) /\ seq' = 0 /\ told' = TRUE
      /\ UNCHANGED <<log, place, socket, pc, resume, first, name, sent_first, started, answered,
                     refused, pos, forgotten, clients, registered, record>>
  BY DEF AsksAgain, hub_gap, registry
<1>3. /\ h = fromBroker[1] /\ h \in Frames /\ w \in Seq(Frames) /\ L \in Nat \ {0}
      /\ Len(w) = L - 1 /\ \A i \in 1..(L - 1) : w[i] = fromBroker[i + 1]
      /\ 1 \in 1..L
      /\ OneQuestion(fromBroker, toBroker, answered, pl, first, sent_first)
  BY <1>1, HeadFacts
<1>4. h \in ResumeResults /\ ~Failing(h)
  BY <1>1, <1>3, ResultSorts DEF Failing
<1>5. Hears(Now, h) = y
  <2>1. y = [pos |-> pos, told |-> TRUE, forgotten |-> forgotten, started |-> started, seq |-> 0,
             answered |-> answered]
    BY <1>2 DEF Now
  <2>2. Hears(Now, h) = HearsResume(Now, h) /\ ~Accepts(Now, h)
    BY <1>1, <1>3, <1>4, HeardAs, NowTypes DEF Accepts
  <2> QED BY <2>1, <2>2, NowTypes DEF HearsResume
<1>6. PICK d : TailCourse(d)
  BY <1>1, <1>4, TailFacts
<1>7. /\ pl.st = "open" /\ socket \in Places /\ pl \in PlaceType
      /\ toBroker \in Seq(Messages)
  BY <1>1, RunsFacts DEF UpstreamInv, BrokerTypes
<1>8. Course(d, w, y, pl, log, first # Nowhere) /\ Ready(d[Len(w)], pl)
  BY <1>5, <1>6, <1>7 DEF TailCourse
<1>9. /\ y.told /\ y.seq = 0 /\ y.started = started /\ y.answered = answered /\ y \in Heard
  BY <1>2, <1>3, <1>5, HearsType, NowTypes DEF Now
<1>10. m \in Messages /\ m.op = "x-subscribe"
  BY DEF Messages, Frame
<1> HIDE DEF h, w, L, pl, m, y
<1>11. /\ sent_first /\ toBroker = <<>> /\ ~answered /\ first # Nowhere
       /\ h.n = 404 => ~pl.subscribed /\ L = 1
  BY <1>1, <1>3, <1>7 DEF OneQuestion, L
<1>12. \A i \in 1..Len(w) : w[i].op # "x-result" /\ w[i].op # "x-welcome"
  <2> SUFFICES ASSUME NEW i \in 1..Len(w) PROVE w[i].op # "x-result" /\ w[i].op # "x-welcome"
    OBVIOUS
  <2>1. i + 1 \in 1..L /\ w[i] = fromBroker[i + 1] /\ i + 1 # 1
    BY <1>3
  <2> QED BY <1>1, <1>3, <1>11, <2>1 DEF OneQuestion, L
<1> DEFINE x == d[Len(w)]
<1>13. Len(w) \in 0..Len(w) /\ Len(w) \in Nat
  BY <1>3
<1>14. /\ x \in Heard /\ (x.started => y.started)
       /\ ~x.started => x.forgotten
  <2> DEFINE r == first # Nowhere
  <2>1. Course(d, w, y, pl, log, r) /\ r
    BY <1>8, <1>11
  <2> HIDE DEF r
  <2>2. \A i \in 0..Len(w) : /\ d[i] \in Heard
                             /\ d[i].started => y.started
                             /\ r /\ ~d[i].started => d[i].forgotten
    BY <1>3, <1>12, <2>1, QuietCourse
  <2>3. \A i \in 0..Len(w) : d[i] \in Heard
    BY <2>2
  <2>4. \A i \in 0..Len(w) : d[i].started => y.started
    BY <2>2
  <2>5. \A i \in 0..Len(w) : ~d[i].started => d[i].forgotten
    BY <2>1, <2>2
  <2> QED BY <1>13, <2>3, <2>4, <2>5
<1>15. started => Len(w) = 0 /\ ~pl.subscribed
  <2>1. h.n = 200 \/ h.n = 404
    BY <1>4 DEF ResumeResults
  <2>2. started => h.n = 404
    BY <1>1, <2>1 DEF Success
  <2> QED BY <1>3, <1>11, <2>2
<1>16. Len(w) = 0 => x = y
  BY <1>8 DEF Course
<1>17. /\ x.started => Warned(x)
       /\ pl.subscribed => ~x.started /\ x.forgotten
       /\ x.seq = 0 \/ x.forgotten
  BY <1>9, <1>11, <1>14, <1>15, <1>16 DEF Warned
<1> DEFINE asked == <<m>>
<1>18. asked # <<>> /\ asked[1] = m /\ Len(asked) = 1 /\ toBroker' = <<m>> /\ <<m>> \in Seq(Messages)
  BY <1>2, <1>10, <1>11
<1> HIDE DEF asked, x
<1>19. Asks(x, w, asked, pl, first, place)
  <2>1. w # <<>> => w[1].op # "x-welcome"
    <3>1. w # <<>> => 1 \in 1..Len(w)
      BY <1>3, EmptySeq
    <3> QED BY <1>12, <3>1
  <2> QED BY <1>17, <1>18, <2>1 DEF Asks, m
<1>20. OneQuestion(w, asked, y.answered, pl, first, sent_first)
  BY <1>7, <1>9, <1>11, <1>12, <1>18 DEF OneQuestion
<1>21. Connection(y, w, asked, place, socket, log, first, sent_first)
  BY <1>8, <1>19, <1>20 DEF Connection, pl, x
<1>22. Runs'
  BY <1>2, <1>18, <1>21 DEF Runs, asked, y
<1>23. BrokerTypes'
  BY <1>2, <1>3, <1>18 DEF UpstreamInv, BrokerTypes
<1>24. TaskTypes' /\ OtherTypes'
  BY <1>2, <1>9 DEF UpstreamInv, TaskTypes, OtherTypes, y
<1> QED BY <1>1, <1>2, <1>22, <1>23, <1>24 DEF UpstreamInv, Between

(* A connection returns: what there is to resume is as sound as before. *)
Returns ==
    /\ pc = "run"
    /\ \E status \in Statuses \cup {0} : Return(resume', status)
    /\ Now' \in Heard /\ pos' <= log /\ (~started' => told')
    /\ refused' \in Statuses \cup {0}
    /\ registered' \in BOOLEAN /\ UNCHANGED <<clients, record>>
    /\ \/ resume' = Nowhere /\ (registered' /\ started' => told' \/ forgotten')
       \/ resume' = [at |-> socket, seq |-> seq] /\ Continues(Now', resume', place')

LEMMA ReturnsKeeps == UpstreamInv /\ Returns => UpstreamInv'
<1> SUFFICES ASSUME UpstreamInv, Returns PROVE UpstreamInv'
  OBVIOUS
<1> USE PlacesAssumption
<1>1. pc = "run"
  BY DEF Returns
<1>2. PICK status \in Statuses \cup {0} : Return(resume', status)
  BY DEF Returns
<1>3. /\ pc' \in {"top", "hold", "sleep"} /\ socket' = NoPlace /\ toBroker' = <<>> /\ fromBroker' = <<>>
      /\ first' = Nowhere /\ name' = NoPlace /\ sent_first' = FALSE /\ answered' = FALSE
      /\ log' = log
  BY <1>2 DEF Return, DropSocket
<1>4. place' = IF Open THEN [place EXCEPT ![socket].st = "held"] ELSE place
  BY <1>2 DEF Return, DropSocket
<1>5. /\ place \in [Places -> PlaceType] /\ socket \in Places /\ place[socket] \in PlaceType
      /\ log \in 0..MaxChanges
  BY <1>1, RunsFacts DEF UpstreamInv, BrokerTypes
<1>6. BrokerTypes'
  <2>1. CASE Open
    <3> DEFINE pm == [place[socket] EXCEPT !.st = "held"]
    <3>1. pm \in PlaceType /\ pm.st = "held"
      BY <1>5 DEF PlaceType
    <3>2. place' = [place EXCEPT ![socket] = pm]
      BY <1>4, <1>5, <2>1
    <3> HIDE DEF pm
    <3>3. /\ place' \in [Places -> PlaceType] /\ place'[socket] = pm
          /\ \A p \in Places : p # socket => place'[p] = place[p]
      BY <1>5, <3>1, <3>2
    <3>4. \A p \in Places : place'[p].st = "free" => ~place'[p].subscribed
      BY <3>1, <3>3 DEF UpstreamInv, BrokerTypes
    <3> QED BY <1>3, <1>5, <3>3, <3>4, EmptySeq DEF BrokerTypes
  <2>2. CASE ~Open
    BY <1>3, <1>4, <2>2, EmptySeq DEF UpstreamInv, BrokerTypes
  <2> QED BY <2>1, <2>2
<1>7. TaskTypes'
  <2>1. Nowhere \in Points
    BY DEF Points, Nowhere
  <2>2. resume' \in Points /\ (resume' # Nowhere => resume'.at \in Places)
    <3>1. seq \in Nat
      BY NowTypes
    <3>2. resume' = Nowhere \/ resume' = [at |-> socket, seq |-> seq]
      BY DEF Returns
    <3> QED BY <1>5, <2>1, <3>1, <3>2 DEF Points
  <2> QED BY <1>3, <2>1, <2>2 DEF TaskTypes, Returns
<1>8. OtherTypes'
  BY DEF UpstreamInv, OtherTypes, Returns
<1>9. Between'
  <2>1. pc' # "connecting" /\ ~answered'
    BY <1>3
  <2>2. pos' <= log' /\ (~started' => told')
    BY <1>3 DEF Returns
  <2>3. registered' => Continues(Now', resume', place')
    <3>1. /\ (Now').started = started' /\ (Now').told = told' /\ (Now').forgotten = forgotten'
      BY DEF Now
    <3>2. CASE resume' = Nowhere /\ (registered' /\ started' => told' \/ forgotten')
      BY <3>1, <3>2 DEF Continues, Warned
    <3> QED BY <3>2 DEF Returns
  <2> QED BY <2>1, <2>2, <2>3 DEF Between
<1>10. Runs'
  BY <1>3 DEF Runs
<1> QED BY <1>6, <1>7, <1>8, <1>9, <1>10 DEF UpstreamInv

(* The message cannot be sent. *)
LEMMA SendFailsReturns == UpstreamInv /\ SendFails => Returns
<1> SUFFICES ASSUME UpstreamInv, SendFails PROVE Returns
  OBVIOUS
<1>1. pc = "run" /\ fromBroker # <<>> /\ Head(fromBroker).op = "x-welcome"
  BY DEF SendFails, Running
<1>2. /\ Return(Nowhere, refused) /\ resume' = Nowhere /\ answered' = FALSE /\ seq' = 0
      /\ forgotten' = (forgotten \/ ~answered)
      /\ UNCHANGED <<pos, told, started, refused, clients, registered, record>>
  BY DEF SendFails, Forgets, Return, registry
<1>3. /\ OneQuestion(fromBroker, toBroker, answered, place[socket], first, sent_first)
      /\ 1 \in 1..Len(fromBroker) /\ Head(fromBroker) = fromBroker[1] /\ Sound(Now, place[socket], log)
  BY <1>1, HeadFacts
<1>4. ~answered
  BY <1>1, <1>3 DEF OneQuestion
<1>5. forgotten' = TRUE
  BY <1>2, <1>4
<1>6. pos <= log /\ (~started => told)
  BY <1>3, NowTypes DEF Sound
<1>7. Now' \in Heard
  BY <1>2, <1>5, NowTypes DEF Now, Heard
<1>8. registered \in BOOLEAN
  BY DEF UpstreamInv, OtherTypes
<1> QED BY <1>1, <1>2, <1>5, <1>6, <1>7, <1>8, NowTypes DEF Returns

(* The place is lost, and the socket with it. *)
LosesBoth ==
    /\ Running("x-result") /\ Head(fromBroker).id = "resume"
    /\ hub_gap /\ Return(Nowhere, refused)
    /\ UNCHANGED <<started, refused, registry>>

LEMMA LosesBothReturns == UpstreamInv /\ LosesBoth => Returns
<1> SUFFICES ASSUME UpstreamInv, LosesBoth PROVE Returns
  OBVIOUS
<1>1. pc = "run" /\ fromBroker # <<>>
  BY DEF LosesBoth, Running
<1>2. /\ Return(Nowhere, refused) /\ resume' = Nowhere /\ answered' = FALSE /\ seq' = 0
      /\ told' = TRUE
      /\ UNCHANGED <<pos, forgotten, started, refused, clients, registered, record>>
  BY DEF LosesBoth, hub_gap, Return, registry
<1>3. Sound(Now, place[socket], log)
  BY <1>1, HeadFacts
<1>4. pos <= log
  BY <1>3, NowTypes DEF Sound
<1>5. Now' \in Heard
  BY <1>2, NowTypes DEF Now, Heard
<1>6. registered \in BOOLEAN
  BY DEF UpstreamInv, OtherTypes
<1> QED BY <1>1, <1>2, <1>4, <1>5, <1>6, NowTypes DEF Returns

(* The subscription is refused. *)
LEMMA RefusedReturns ==
    UpstreamInv /\ Running("x-result") /\ Refused(Head(fromBroker).n) => Returns
<1> SUFFICES ASSUME UpstreamInv, Running("x-result"), Refused(Head(fromBroker).n)
             PROVE  Returns
  OBVIOUS
<1> DEFINE h == Head(fromBroker)
<1>1. pc = "run" /\ fromBroker # <<>> /\ h.op = "x-result" /\ h.id = "up"
  BY DEF Running, Refused
<1>2. /\ Return(Nowhere, h.n) /\ resume' = Nowhere /\ answered' = FALSE /\ seq' = 0
      /\ told' = TRUE /\ started' = FALSE /\ refused' = h.n
      /\ UNCHANGED <<pos, forgotten, clients, registered, record>>
  BY DEF Refused, hub_gap, Return, registry
<1>3. Sound(Now, place[socket], log) /\ h \in Frames
  BY <1>1, HeadFacts
<1>4. pos <= log
  BY <1>3, NowTypes DEF Sound
<1>5. h.n \in Statuses
  BY <1>1, <1>3, ResultSorts
<1>6. Now' \in Heard
  BY <1>2, NowTypes DEF Now, Heard
<1>7. registered \in BOOLEAN
  BY DEF UpstreamInv, OtherTypes
<1> HIDE DEF h
<1> QED BY <1>1, <1>2, <1>4, <1>5, <1>6, <1>7 DEF Returns

(* The connection ends. *)
LEMMA ClosingReturns == UpstreamInv /\ Closing => Returns
<1> SUFFICES ASSUME UpstreamInv, Closing PROVE Returns
  OBVIOUS
<1> USE PlacesAssumption
<1> DEFINE pl == place[socket]
           from == [at |-> socket, seq |-> seq]
<1>1. pc = "run" /\ fromBroker # <<>> /\ Head(fromBroker).op = "x-closing"
  BY DEF Closing, Running
<1>2. /\ Return(lost, refused) /\ resume' = lost /\ answered' = FALSE /\ seq' = 0
      /\ forgotten' = (forgotten \/ ~answered)
      /\ UNCHANGED <<pos, told, started, refused, clients, registered, record>>
  BY DEF Closing, Forgets, Return, registry
<1>3. /\ OneQuestion(fromBroker, toBroker, answered, pl, first, sent_first)
      /\ Sound(Now, pl, log)
  BY <1>1, HeadFacts
<1>4. /\ socket \in Places /\ socket # NoPlace /\ pl \in PlaceType /\ (Open <=> pl.st = "open")
      /\ place \in [Places -> PlaceType]
  BY <1>1, RunsFacts DEF UpstreamInv, BrokerTypes
<1>5. /\ pos <= log /\ (~started => told) /\ (answered => started)
      /\ pl.subscribed => /\ pl.base + seq >= pos
                          /\ answered => pl.base + seq = pos \/ told \/ forgotten
                          /\ ~started => pl.base >= pos
      /\ answered /\ pl.st # "free" => pl.subscribed \/ forgotten
  BY <1>3, NowTypes DEF Sound, Warned
<1>6. /\ forgotten' \in BOOLEAN /\ (~answered => forgotten') /\ (forgotten => forgotten')
  BY <1>2, NowTypes
<1>7. Now' \in Heard
  BY <1>2, <1>6, NowTypes DEF Now, Heard
<1>8. (Now').pos = pos /\ (Now').told = told /\ (Now').forgotten = forgotten' /\ (Now').started = started
  BY <1>2 DEF Now
<1>9. registered \in BOOLEAN
  BY DEF UpstreamInv, OtherTypes
<1>10. CASE name = NoPlace
  <2>1. lost = Nowhere
    BY <1>10 DEF lost
  <2>2. ~sent_first
    BY <1>1, <1>4, <1>10 DEF UpstreamInv, TaskTypes
  <2>3. ~answered
    BY <1>3, <2>2 DEF OneQuestion
  <2> QED BY <1>1, <1>2, <1>5, <1>6, <1>7, <1>9, <2>1, <2>3, NowTypes DEF Returns
<1>11. CASE name # NoPlace
  <2>1. name = socket /\ lost = from
    BY <1>11 DEF UpstreamInv, TaskTypes, lost
  <2>2. from # Nowhere /\ from.at = socket /\ from.seq = seq
    BY <1>4 DEF Nowhere
  <2>3. place' = IF Open THEN [place EXCEPT ![socket].st = "held"] ELSE place
    BY <1>2 DEF Return, DropSocket
  <2>4. place'[socket].subscribed = pl.subscribed /\ place'[socket].base = pl.base
    <3>1. CASE Open
      <4>1. place'[socket] = [pl EXCEPT !.st = "held"]
        BY <1>4, <2>3, <3>1
      <4> HIDE DEF pl
      <4> QED BY <1>4, <4>1 DEF PlaceType
    <3>2. CASE ~Open
      BY <2>3, <3>2
    <3> QED BY <3>1, <3>2
  <2>5. place'[socket].st = "held" => pl.st # "free"
    <3>1. CASE Open
      BY <1>4, <3>1
    <3>2. CASE ~Open
      BY <2>3, <3>2
    <3> QED BY <3>1, <3>2
  <2> HIDE DEF pl, from
  <2>6. Continues(Now', from, place')
    <3>1. ~started => forgotten'
      BY <1>5, <1>6
    <3>2. ASSUME place'[socket].st = "held", pl.subscribed
          PROVE  /\ pl.base + seq >= pos
                 /\ pl.base + seq = pos \/ told \/ forgotten'
                 /\ ~started => pl.base >= pos
      BY <1>5, <1>6, <3>2
    <3>3. ASSUME place'[socket].st = "held", ~pl.subscribed
          PROVE  forgotten'
      BY <1>5, <1>6, <2>5, <3>3
    <3> QED BY <1>4, <1>8, <2>2, <2>4, <3>1, <3>2, <3>3 DEF Continues, Warned
  <2> QED BY <1>1, <1>2, <1>5, <1>7, <1>9, <2>1, <2>6, NowTypes DEF Returns, from
<1> QED BY <1>10, <1>11

(* A hub that has lingered, or that make_room dropped, ends its connection. *)
LEMMA TickKeeps == UpstreamInv /\ Tick => UpstreamInv'
<1> SUFFICES ASSUME UpstreamInv, Tick PROVE UpstreamInv'
  OBVIOUS
<1>1. pc = "run" /\ UNCHANGED <<started, refused, pos, told, forgotten, clients, record>>
  BY DEF Tick, feed
<1>2. CASE LeaveIfIdle /\ Return(Nowhere, refused)
  <2>1. /\ resume' = Nowhere /\ answered' = FALSE /\ seq' = 0 /\ registered' = FALSE
    BY <1>2 DEF LeaveIfIdle, Leave, Return
  <2>2. Sound(Now, place[socket], log)
    <3>1. PICK c : Course(c, fromBroker, Now, place[socket], log, first # Nowhere)
      BY <1>1, RunsFacts DEF Connection
    <3>2. 0 \in 0..Len(fromBroker)
      BY <1>1, RunsFacts
    <3> QED BY <3>1, <3>2 DEF Course
  <2>3. pos <= log /\ (~started => told)
    BY <2>2, NowTypes DEF Sound
  <2>4. Now' \in Heard
    BY <1>1, <2>1, NowTypes DEF Now, Heard
  <2>5. Returns
    BY <1>1, <1>2, <2>1, <2>3, <2>4, NowTypes DEF Returns
  <2> QED BY <2>5, ReturnsKeeps
<1>3. CASE UNCHANGED <<broker, task, registered>>
  <2>1. Now' = Now
    BY <1>1, <1>3 DEF Now, task
  <2>2. BrokerTypes' /\ TaskTypes' /\ OtherTypes' /\ Between' /\ Runs'
    BY <1>1, <1>3, <2>1
    DEF broker, task, UpstreamInv, BrokerTypes, TaskTypes, OtherTypes, Between, Runs
  <2> QED BY <2>2 DEF UpstreamInv
<1> QED BY <1>2, <1>3 DEF Tick

-----------------------------------------------------------------------------
(* The invariant, and what it gives. *)

LEMMA InitHolds == Init => UpstreamInv
<1> SUFFICES ASSUME Init PROVE UpstreamInv
  OBVIOUS
<1> USE BoundAssumption, PlacesAssumption DEF Init
<1>1. BrokerTypes
  <2>1. Empty \in PlaceType /\ ~Empty.subscribed
    BY DEF Empty, PlaceType
  <2> QED BY <2>1, EmptySeq DEF BrokerTypes
<1>2. TaskTypes
  BY DEF TaskTypes, Nowhere, Points, Now, Heard
<1>3. OtherTypes
  BY DEF OtherTypes
<1>4. Between
  BY DEF Between, Continues, Now
<1>5. Runs
  BY DEF Runs
<1> QED BY <1>1, <1>2, <1>3, <1>4, <1>5 DEF UpstreamInv

(* What a result does. *)
LEMMA ResultCases ==
    Result => /\ Running("x-result")
              /\ \/ Accepted(Head(fromBroker).n) \/ FirstAccepted(Head(fromBroker).n)
                 \/ AsksAgain \/ LosesBoth \/ Refused(Head(fromBroker).n)
<1> SUFFICES ASSUME Running("x-result"), ResumeRefused(Head(fromBroker).n)
             PROVE  AsksAgain \/ LosesBoth
  BY DEF Result
<1> QED BY DEF ResumeRefused, AsksAgain, LosesBoth

LEMMA NextKeeps == UpstreamInv /\ [Next]_vars => UpstreamInv'
<1> SUFFICES ASSUME UpstreamInv, [Next]_vars PROVE UpstreamInv'
  OBVIOUS
<1>1. CASE Broker
  BY <1>1, ChangeKeeps, SubscribesKeeps, ResumesKeeps, NotifiesKeeps, DropsKeeps, SocketEndsKeeps,
     PlaceExpiresKeeps DEF Broker
<1>2. CASE Registry
  BY <1>2, RegistryKeeps
<1>3. CASE Waits \/ Connects
  BY <1>3, WaitsKeeps, ConnectsKeeps
<1>4. CASE Result
  BY <1>4, ResultCases, AcceptedListens, FirstAcceptedListens, AsksAgainKeeps, LosesBothReturns,
     RefusedReturns, ListensKeeps, ReturnsKeeps
<1>5. CASE Welcome \/ SendFails
  BY <1>5, WelcomeKeeps, SendFailsReturns, ReturnsKeeps
<1>6. CASE Notification \/ Gap
  BY <1>6, NotificationListens, GapListens, ListensKeeps
<1>7. CASE Closing \/ Tick
  BY <1>7, ClosingReturns, TickKeeps, ReturnsKeeps
<1>8. CASE UNCHANGED vars
  <2>1. UNCHANGED <<broker, task, refused, feed, registry>>
    BY <1>8 DEF vars
  <2>2. Now' = Now
    BY <2>1 DEF Now, task, feed
  <2>3. BrokerTypes' /\ TaskTypes' /\ OtherTypes' /\ Between' /\ Runs'
    BY <2>1, <2>2 DEF broker, task, feed, registry, UpstreamInv, BrokerTypes, TaskTypes,
                      OtherTypes, Between, Runs
  <2> QED BY <2>3 DEF UpstreamInv
<1> QED BY <1>1, <1>2, <1>3, <1>4, <1>5, <1>6, <1>7, <1>8 DEF Next, Task, Run, Waits

LEMMA UpstreamHolds == Spec => []UpstreamInv
<1> QED BY InitHolds, NextKeeps, PTL DEF Spec

LEMMA SoundNow == UpstreamInv /\ pc = "run" => Sound(Now, place[socket], log) /\ pos <= log
<1> SUFFICES ASSUME UpstreamInv, pc = "run"
             PROVE  Sound(Now, place[socket], log) /\ pos <= log
  OBVIOUS
<1>1. PICK c : Course(c, fromBroker, Now, place[socket], log, first # Nowhere)
  BY RunsFacts DEF Connection
<1>2. 0 \in 0..Len(fromBroker)
  BY RunsFacts
<1>3. Sound(Now, place[socket], log)
  BY <1>1, <1>2 DEF Course
<1> QED BY <1>3, NowTypes DEF Sound

LEMMA SoundLater == UpstreamInv' /\ (pc = "run")' => (pos <= log)'
  BY SoundNow, PTL

LEMMA InvHears == UpstreamInv => HearsItsView
<1> SUFFICES ASSUME UpstreamInv PROVE HearsItsView
  OBVIOUS
<1>1. TypeOK
  BY DEF UpstreamInv, BrokerTypes, TaskTypes, OtherTypes, PlaceType, TypeOK
<1>2. ASSUME answered, Open PROVE place[socket].subscribed \/ forgotten
  <2>1. pc = "run"
    BY <1>2, OpenRuns
  <2>2. place[socket].st = "open"
    BY <1>2 DEF Open
  <2> QED BY <1>2, <2>1, <2>2, SoundNow, NowTypes DEF Sound
<1> QED BY <1>1, <1>2 DEF HearsItsView

(* A hub that believes it listens does: once the first message of a socket    *)
(* was answered with success, the broker holds the hub's subscription on it,  *)
(* unless a connection ended unanswered since the last change.                *)
THEOREM TheHubIsHeard == Spec => []HearsItsView
BY UpstreamHolds, InvHears, PTL

(* Every step of the upstream is a step of the feed it promises, or none. *)
LEMMA StepsFeed ==
    UpstreamInv /\ UpstreamInv' /\ [Next]_vars => [F!Next]_<<log, pos, told \/ forgotten>>
<1> SUFFICES ASSUME UpstreamInv, UpstreamInv', [Next]_vars
             PROVE  [F!Next]_<<log, pos, told \/ forgotten>>
  OBVIOUS
<1> USE DEF F!Next, F!Change, F!GoLive, F!Deliver, F!Tell
<1>1. CASE UNCHANGED <<log, pos, told, forgotten>>
  BY <1>1
<1>2. CASE Change
  BY <1>2 DEF Change, feed
<1>3. CASE UNCHANGED <<log, pos>> /\ (told' = TRUE \/ forgotten' = TRUE)
  BY <1>3
<1>4. ASSUME Running("x-result"), FirstAccepted(Head(fromBroker).n)
      PROVE  F!GoLive
  <2> DEFINE h == Head(fromBroker)
  <2>1. pc = "run" /\ fromBroker # <<>> /\ h.op = "x-result"
    BY <1>4 DEF Running
  <2>2. /\ h.id = "up" /\ Success(h.n) /\ ~started /\ pos' = h.base /\ told' = FALSE
        /\ UNCHANGED <<log, pc, forgotten>>
    BY <1>4 DEF FirstAccepted
  <2>3. h \in Frames /\ Legal(Now, h) /\ told
    BY <2>1, <2>2, HeadFacts, SoundNow, NowTypes DEF Sound
  <2>4. h.base \in Nat
    BY <2>1, <2>2, <2>3, ResultSorts
  <2>5. h.base >= pos
    BY <2>1, <2>2, <2>3, NowTypes DEF Legal
  <2>6. UpstreamInv' /\ pc' = "run" => pos' <= log'
    BY SoundLater
  <2>7. pos' <= log /\ log \in Nat
    BY <2>1, <2>2, <2>6, RunsFacts
  <2> HIDE DEF h
  <2>8. (told \/ forgotten) /\ (told' \/ forgotten') \in BOOLEAN
    BY <2>3
  <2> QED BY <2>2, <2>4, <2>5, <2>7, <2>8, NowTypes
<1>5. ASSUME Notification
      PROVE  F!Deliver \/ UNCHANGED <<log, pos, told, forgotten>>
  <2> DEFINE h == Head(fromBroker)
  <2>1. pc = "run" /\ fromBroker # <<>> /\ h.op = "x-notification"
    BY <1>5 DEF Notification, Running
  <2>2. CASE started
    <3>1. pos' = h.id /\ told' = FALSE /\ forgotten' = FALSE /\ UNCHANGED <<log, pc>>
      BY <1>5, <2>2 DEF Notification
    <3>2. h \in Frames /\ Legal(Now, h)
      BY <2>1, HeadFacts
    <3>3. h.id \in Nat
      BY <2>1, <3>2 DEF Frames, Signs, Notes, ResumeResults, UpResults
    <3>4. h.id > pos /\ (h.id = pos + 1 \/ told \/ forgotten)
      BY <2>1, <2>2, <3>2, NowTypes DEF Legal, Warned
    <3>5. UpstreamInv' /\ pc' = "run" => pos' <= log'
      BY SoundLater
    <3>6. pos' <= log /\ log \in Nat
      BY <2>1, <3>1, <3>5, RunsFacts
    <3> HIDE DEF h
    <3>7. h.id \in pos + 1 .. log
      BY <3>1, <3>3, <3>4, <3>6, NowTypes
    <3> QED BY <3>1, <3>4, <3>7
  <2>3. CASE ~started
    BY <1>5, <2>3 DEF Notification, feed
  <2> QED BY <2>2, <2>3
<1>6. CASE Broker
  BY <1>1, <1>2, <1>6 DEF Broker, BrokerSubscribes, BrokerResumes, BrokerNotifies, BrokerDrops,
                          SocketEnds, PlaceExpires, feed
<1>7. CASE Registry
  BY <1>1, <1>7 DEF Registry, Join, AnotherJoins, LastClientLeaves, Lingers, MakeRoom, Reload,
                    Reloaded, broker, feed
<1>8. CASE Waits \/ Connects \/ Welcome
  BY <1>1, <1>8 DEF Waits, Stops, Stays, ConnectFails, Slept, HoldRecheck, HoldLook, Connects,
                    Welcome, broker, feed
<1>9. CASE SendFails \/ Closing
  <2>1. UNCHANGED <<log, pos, told>> /\ forgotten' = (forgotten \/ ~answered)
    BY <1>9 DEF SendFails, Closing, Forgets, Return
  <2>2. forgotten' = forgotten \/ forgotten' = TRUE
    BY <2>1, NowTypes
  <2> QED BY <1>1, <1>3, <2>1, <2>2
<1>10. CASE Result
  <2>1. CASE Accepted(Head(fromBroker).n)
    BY <1>1, <2>1 DEF Accepted, feed
  <2>2. CASE AsksAgain \/ LosesBoth \/ Refused(Head(fromBroker).n)
    BY <1>3, <2>2 DEF AsksAgain, LosesBoth, Refused, hub_gap, Return
  <2> QED BY <1>4, <1>10, <2>1, <2>2, ResultCases
<1>11. CASE Gap
  BY <1>3, <1>11 DEF Gap, hub_gap
<1>12. CASE Tick
  BY <1>1, <1>12 DEF Tick, Return, broker, feed
<1>13. CASE UNCHANGED vars
  BY <1>1, <1>13 DEF vars, broker, feed
<1>14. CASE Notification
  BY <1>1, <1>5, <1>14
<1> QED BY <1>6, <1>7, <1>8, <1>9, <1>10, <1>11, <1>12, <1>13, <1>14 DEF Next, Task, Run, Waits

(* Whatever the broker, the network and the registry do, the changes of the   *)
(* view reach the hub in their order, each at most once, and none is skipped  *)
(* unless the clients were told, or a connection ended unanswered, since.     *)
THEOREM UpstreamKeepsTheFeed == Spec => ImplementsFeed
<1>1. Init => F!Init
  BY DEF Init, F!Init
<1> QED BY <1>1, UpstreamHolds, StepsFeed, PTL DEF Spec, ImplementsFeed, F!Spec

=============================================================================
