----------------------------- MODULE AnswerProofs -----------------------------
(***************************************************************************)
(* Proofs about the answer and its stream.                                 *)
(***************************************************************************)
EXTENDS EventStream, OrderingProofs

-----------------------------------------------------------------------------
(* Frames and their text *)

Alphabet == {"[", "]"} \cup DOMAIN Digit
Values == Seq(Alphabet \cup Nat \cup {"zero", "some"})
Ending == {"citations", "usage", "done"}
Events == {"role", "passages", "delta"} \cup Ending
FrameSet == [event : Events, json : {"array", "object"}, value : Values]

TextOf(f) == IF f.event = "delta" THEN f.value ELSE <<>>

(* The value of a delta is text. *)
Framed == {f \in FrameSet : TextOf(f) \in Seq(Alphabet)}

LEMMA TextAppend ==
  ASSUME NEW fs \in Seq(Framed), NEW f \in Framed
  PROVE  /\ Append(fs, f) \in Seq(Framed)
         /\ Text(fs) \in Seq(Alphabet)
         /\ Text(Append(fs, f)) = Text(fs) \o TextOf(f)
<1> DEFINE parts(s) == [i \in DOMAIN s |-> TextOf(s[i])]
           gs == Append(fs, f)
<1>1. /\ gs \in Seq(Framed) /\ Len(gs) = Len(fs) + 1 /\ gs[Len(fs) + 1] = f
      /\ \A i \in 1 .. Len(fs) : gs[i] = fs[i]
  BY AppendProperties
<1>2. \A s : s \in Seq(Framed) => /\ Len(s) \in Nat /\ DOMAIN s = 1 .. Len(s)
                                   /\ parts(s) \in Seq(Seq(Alphabet))
                                   /\ Len(parts(s)) = Len(s)
                                   /\ \A i \in 1 .. Len(s) : parts(s)[i] = TextOf(s[i])
  <2> SUFFICES ASSUME NEW s, s \in Seq(Framed)
               PROVE  /\ Len(s) \in Nat /\ DOMAIN s = 1 .. Len(s)
                      /\ parts(s) \in Seq(Seq(Alphabet))
                      /\ Len(parts(s)) = Len(s)
                      /\ \A i \in 1 .. Len(s) : parts(s)[i] = TextOf(s[i])
    OBVIOUS
  <2>1. Len(s) \in Nat /\ DOMAIN s = 1 .. Len(s)
    BY LenProperties
  <2>2. \A i \in 1 .. Len(s) : TextOf(s[i]) \in Seq(Alphabet)
    BY ElementOfSeq DEF Framed
  <2>3. parts(s) \in [1 .. Len(s) -> Seq(Alphabet)]
    BY <2>1, <2>2
  <2>4. parts(s) \in Seq(Seq(Alphabet))
    BY <2>1, <2>3, SeqDef
  <2> QED
    BY <2>1, <2>3, <2>4, LenProperties
<1>3. Text(fs) = FlattenSeq(parts(fs)) /\ Text(gs) = FlattenSeq(parts(gs))
  BY DEF Text, TextOf
<1> HIDE DEF parts, gs
<1>4. TextOf(f) \in Seq(Alphabet)
  BY DEF Framed
<1>5. parts(gs) = Append(parts(fs), TextOf(f))
  <2>1. /\ Append(parts(fs), TextOf(f)) \in Seq(Seq(Alphabet))
        /\ Len(Append(parts(fs), TextOf(f))) = Len(fs) + 1
        /\ \A i \in 1 .. Len(fs) : Append(parts(fs), TextOf(f))[i] = parts(fs)[i]
        /\ Append(parts(fs), TextOf(f))[Len(fs) + 1] = TextOf(f)
    BY <1>2, <1>4, AppendProperties
  <2>2. parts(gs) \in Seq(Seq(Alphabet)) /\ Len(parts(gs)) = Len(fs) + 1
    BY <1>1, <1>2
  <2>3. \A i \in 1 .. Len(fs) + 1 : parts(gs)[i] = Append(parts(fs), TextOf(f))[i]
    BY <1>1, <1>2, <2>1
  <2> QED
    BY <2>1, <2>2, <2>3, SeqEqual
<1>6. FlattenSeq(parts(fs)) \in Seq(Alphabet)
      /\ FlattenSeq(Append(parts(fs), TextOf(f))) = FlattenSeq(parts(fs)) \o TextOf(f)
  BY <1>2, <1>4, FlattenAppend
<1> QED
  BY <1>1, <1>3, <1>5, <1>6 DEF gs

LEMMA TextEmpty == Text(<<>>) = <<>>
BY DEF Text, FlattenSeq

LEMMA Appended ==
  ASSUME NEW X, NEW s \in Seq(X), NEW a \in X
  PROVE  /\ s \o <<a>> = Append(s, a)
         /\ \A b \in X : s \o <<a, b>> = Append(Append(s, a), b)
         /\ \A b, c \in X : s \o <<a, b, c>> = Append(Append(Append(s, a), b), c)
         /\ \A b, c, d \in X :
              s \o <<a, b, c, d>> = Append(Append(Append(Append(s, a), b), c), d)
<1>1. /\ s \o <<a>> = Append(s, a)
      /\ \A b \in X : s \o <<a, b>> = Append(Append(s, a), b)
  OBVIOUS
<1>2. \A b, c \in X : s \o <<a, b, c>> = Append(Append(Append(s, a), b), c)
  BY SMTT(30)
<1>3. \A b, c, d \in X :
         s \o <<a, b, c, d>> = Append(Append(Append(Append(s, a), b), c), d)
  BY SMTT(60)
<1> QED
  BY ONLY <1>1, <1>2, <1>3, Zenon

LEMMA Cited ==
  ASSUME NEW text, NEW n \in Nat
  PROVE  LET cited == resolve_citations(text, n) IN
         /\ cited \in Values
         /\ ToSet(cited) = {m \in 1 .. n : m \in Markers(text)}
         /\ \A k, l \in DOMAIN cited : k < l => cited[k] < cited[l]
<1> DEFINE S == Markers(text) \cap (1 .. n)
           cited == resolve_citations(text, n)
<1>1. S \in SUBSET (1 .. n)
  OBVIOUS
<1>2. cited = InOrder(S, <)
  BY DEF resolve_citations
<1>3. S \subseteq Alphabet \cup Nat \cup {"zero", "some"} /\ S = {m \in 1 .. n : m \in Markers(text)}
  OBVIOUS
<1> HIDE DEF S, cited
<1>4. /\ cited \in Seq(S) /\ Len(cited) \in Nat /\ DOMAIN cited = 1 .. Len(cited)
      /\ \A x \in S : \E k \in 1 .. Len(cited) : cited[k] = x
      /\ \A k \in 1 .. Len(cited) : cited[k] \in S
      /\ \A k, l \in 1 .. Len(cited) : k < l => cited[k] < cited[l]
  BY <1>1, <1>2, NumbersInOrder
<1>5. cited \in Values
  BY <1>3, <1>4, SeqMonotonic DEF Values
<1>6. ToSet(cited) = S
  BY <1>4 DEF ToSet
<1> QED
  BY <1>3, <1>4, <1>5, <1>6 DEF cited

(* A response that has all its frames: the last one, and only that, is     *)
(* done, and one each has the citations of the text and the token counts.  *)
Ended(gs, text, counts, n_shown) ==
  /\ gs \in Seq(Framed)
  /\ Len(gs) > 0
  /\ \A n \in 1 .. Len(gs) : gs[n].event = "done" <=> n = Len(gs)
  /\ Text(gs) = text
  /\ \E c \in 1 .. Len(gs) :
       /\ \A n \in 1 .. Len(gs) : gs[n].event = "citations" <=> n = c
       /\ gs[c].value = resolve_citations(text, n_shown)
  /\ counts # "none" =>
       \E u \in 1 .. Len(gs) :
         /\ \A n \in 1 .. Len(gs) : gs[n].event = "usage" <=> n = u
         /\ gs[u].value = <<counts>>

Unended(fs) == \A n \in 1 .. Len(fs) : fs[n].event \notin Ending

LEMMA LastFramesEnd ==
  ASSUME NEW fs \in Seq(Framed), Unended(fs), NEW text \in Seq(Alphabet),
         NEW counts \in {"none", "zero", "some"},
         endpoint \in {"ask", "stream", "complete"}, shown \in Nat,
         Text(fs) = IF endpoint = "complete" THEN <<>> ELSE text
  PROVE  /\ Ended(fs \o LastFrames(text, counts), text, counts, shown)
         /\ Len(fs \o LastFrames(text, counts)) >= Len(fs)
<1> DEFINE cited == resolve_citations(text, shown)
           N == Len(fs)
           fc == DataFrame("citations", cited)
           fa == Frame("citations", "array", cited)
           fu == Frame("usage", "object", <<IF counts = "none" THEN "zero" ELSE counts>>)
           fd == Frame("done", "object", <<>>)
           ft == Frame("delta", "object", text)
<1>1. cited \in Values
  BY Cited
<1>2. text \in Values
  <2>1. Alphabet \subseteq Alphabet \cup Nat \cup {"zero", "some"}
    OBVIOUS
  <2> QED
    BY <2>1, SeqMonotonic DEF Values
<1>3. <<>> \in Values /\ <<>> \in Seq(Alphabet)
  BY EmptySeq DEF Values
<1>4. <<IF counts = "none" THEN "zero" ELSE counts>> \in Values
  <2>1. (IF counts = "none" THEN "zero" ELSE counts) \in Alphabet \cup Nat \cup {"zero", "some"}
    OBVIOUS
  <2> QED
    BY <2>1 DEF Values
<1>5. /\ fc \in Framed /\ fc.event = "citations" /\ fc.value = cited /\ TextOf(fc) = <<>>
      /\ fa \in Framed /\ fa.event = "citations" /\ fa.value = cited /\ TextOf(fa) = <<>>
      /\ fu \in Framed /\ fu.event = "usage" /\ TextOf(fu) = <<>>
      /\ counts # "none" => fu.value = <<counts>>
      /\ fd \in Framed /\ fd.event = "done" /\ TextOf(fd) = <<>>
      /\ ft \in Framed /\ ft.event = "delta" /\ TextOf(ft) = text
  <2> HIDE DEF cited
  <2> QED
    BY <1>1, <1>2, <1>3, <1>4
    DEF Framed, FrameSet, Frame, DataFrame, TextOf, Events, Ending
<1>6. \A s \in Seq(Alphabet) : s \o <<>> = s /\ <<>> \o s = s
  BY ConcatEmptySeq
<1>7. N \in Nat /\ \A n \in 1 .. N : fs[n].event \notin Ending
  BY LenProperties DEF Unended
<1> DEFINE gs == fs \o LastFrames(text, counts)
<1>8. CASE endpoint = "ask" /\ counts = "none"
  <2>1. LastFrames(text, counts) = <<fc, fd>>
    BY <1>8 DEF LastFrames
  <2> HIDE DEF fc, fd, cited
  <2>2. gs = Append(Append(fs, fc), fd)
    BY <1>5, <2>1, Appended
  <2>3. Append(fs, fc) \in Seq(Framed) /\ Text(Append(fs, fc)) = text
    BY <1>5, <1>6, <1>8, TextAppend
  <2>4. gs \in Seq(Framed) /\ Text(gs) = text
    BY <1>5, <1>6, <2>2, <2>3, TextAppend
  <2>5. Len(gs) = N + 2 /\ gs[N + 1] = fc /\ gs[N + 2] = fd /\ \A n \in 1 .. N : gs[n] = fs[n]
    BY <1>5, <1>7, <2>2
  <2> HIDE DEF gs
  <2>6. \A n \in 1 .. Len(gs) : gs[n].event = "done" <=> n = Len(gs)
    BY <1>5, <1>7, <2>5 DEF Ending
  <2>7. \A n \in 1 .. Len(gs) : gs[n].event = "citations" <=> n = N + 1
    BY <1>5, <1>7, <2>5 DEF Ending
  <2>8. N + 1 \in 1 .. Len(gs) /\ Len(gs) > 0
    BY <1>7, <2>5
  <2>9. Ended(gs, text, counts, shown)
    BY <1>5, <1>8, <2>4, <2>5, <2>6, <2>7, <2>8 DEF Ended, cited
  <2>10. Len(gs) >= N
    BY <1>7, <2>5
  <2> QED
    BY <2>9, <2>10 DEF gs
<1>9. CASE endpoint = "ask" /\ counts # "none"
  <2>1. LastFrames(text, counts) = <<fc, fu, fd>>
    BY <1>9 DEF LastFrames
  <2> HIDE DEF fc, fd, fu, cited
  <2>2. gs = Append(Append(Append(fs, fc), fu), fd)
    BY <1>5, <2>1, Appended
  <2>3. Append(fs, fc) \in Seq(Framed) /\ Text(Append(fs, fc)) = text
    BY <1>5, <1>6, <1>9, TextAppend
  <2>4. Append(Append(fs, fc), fu) \in Seq(Framed) /\ Text(Append(Append(fs, fc), fu)) = text
    BY <1>5, <1>6, <2>3, TextAppend
  <2>5. gs \in Seq(Framed) /\ Text(gs) = text
    BY <1>5, <1>6, <2>2, <2>4, TextAppend
  <2>6. /\ Len(gs) = N + 3 /\ gs[N + 1] = fc /\ gs[N + 2] = fu /\ gs[N + 3] = fd
        /\ \A n \in 1 .. N : gs[n] = fs[n]
    BY <1>5, <1>7, <2>2
  <2> HIDE DEF gs
  <2>7. \A n \in 1 .. Len(gs) : gs[n].event = "done" <=> n = Len(gs)
    BY <1>5, <1>7, <2>6 DEF Ending
  <2>8. \A n \in 1 .. Len(gs) : gs[n].event = "citations" <=> n = N + 1
    BY <1>5, <1>7, <2>6 DEF Ending
  <2>9. \A n \in 1 .. Len(gs) : gs[n].event = "usage" <=> n = N + 2
    BY <1>5, <1>7, <2>6 DEF Ending
  <2>10. N + 1 \in 1 .. Len(gs) /\ N + 2 \in 1 .. Len(gs) /\ Len(gs) > 0
    BY <1>7, <2>6
  <2>11. Ended(gs, text, counts, shown)
    BY <1>5, <1>9, <2>5, <2>6, <2>7, <2>8, <2>9, <2>10 DEF Ended, cited
  <2>12. Len(gs) >= N
    BY <1>7, <2>6
  <2> QED
    BY <2>11, <2>12 DEF gs
<1>10. CASE endpoint = "stream"
  <2>1. LastFrames(text, counts) = <<fa, fu, fd>>
    BY <1>10 DEF LastFrames
  <2> HIDE DEF fa, fd, fu, cited
  <2>2. gs = Append(Append(Append(fs, fa), fu), fd)
    BY <1>5, <2>1, Appended
  <2>3. Append(fs, fa) \in Seq(Framed) /\ Text(Append(fs, fa)) = text
    BY <1>5, <1>6, <1>10, TextAppend
  <2>4. Append(Append(fs, fa), fu) \in Seq(Framed) /\ Text(Append(Append(fs, fa), fu)) = text
    BY <1>5, <1>6, <2>3, TextAppend
  <2>5. gs \in Seq(Framed) /\ Text(gs) = text
    BY <1>5, <1>6, <2>2, <2>4, TextAppend
  <2>6. /\ Len(gs) = N + 3 /\ gs[N + 1] = fa /\ gs[N + 2] = fu /\ gs[N + 3] = fd
        /\ \A n \in 1 .. N : gs[n] = fs[n]
    BY <1>5, <1>7, <2>2
  <2> HIDE DEF gs
  <2>7. \A n \in 1 .. Len(gs) : gs[n].event = "done" <=> n = Len(gs)
    BY <1>5, <1>7, <2>6 DEF Ending
  <2>8. \A n \in 1 .. Len(gs) : gs[n].event = "citations" <=> n = N + 1
    BY <1>5, <1>7, <2>6 DEF Ending
  <2>9. \A n \in 1 .. Len(gs) : gs[n].event = "usage" <=> n = N + 2
    BY <1>5, <1>7, <2>6 DEF Ending
  <2>10. N + 1 \in 1 .. Len(gs) /\ N + 2 \in 1 .. Len(gs) /\ Len(gs) > 0
    BY <1>7, <2>6
  <2>11. Ended(gs, text, counts, shown)
    BY <1>5, <2>5, <2>6, <2>7, <2>8, <2>9, <2>10 DEF Ended, cited
  <2>12. Len(gs) >= N
    BY <1>7, <2>6
  <2> QED
    BY <2>11, <2>12 DEF gs
<1>11. CASE endpoint = "complete"
  <2>1. LastFrames(text, counts) = <<ft, fa, fu, fd>>
    BY <1>11 DEF LastFrames
  <2> HIDE DEF ft, fa, fd, fu, cited
  <2>2. gs = Append(Append(Append(Append(fs, ft), fa), fu), fd)
    BY <1>5, <2>1, Appended
  <2>3. Append(fs, ft) \in Seq(Framed) /\ Text(Append(fs, ft)) = text
    BY <1>5, <1>6, <1>11, TextAppend
  <2>4. /\ Append(Append(fs, ft), fa) \in Seq(Framed)
        /\ Text(Append(Append(fs, ft), fa)) = text
    BY <1>5, <1>6, <2>3, TextAppend
  <2>5. /\ Append(Append(Append(fs, ft), fa), fu) \in Seq(Framed)
        /\ Text(Append(Append(Append(fs, ft), fa), fu)) = text
    BY <1>5, <1>6, <2>4, TextAppend
  <2>6. gs \in Seq(Framed) /\ Text(gs) = text
    BY <1>5, <1>6, <2>2, <2>5, TextAppend
  <2>7. /\ Len(gs) = N + 4 /\ gs[N + 1] = ft /\ gs[N + 2] = fa /\ gs[N + 3] = fu /\ gs[N + 4] = fd
        /\ \A n \in 1 .. N : gs[n] = fs[n]
    BY <1>5, <1>7, <2>2
  <2> HIDE DEF gs
  <2>8. \A n \in 1 .. Len(gs) : gs[n].event = "done" <=> n = Len(gs)
    <3> SUFFICES ASSUME NEW n \in 1 .. Len(gs) PROVE gs[n].event = "done" <=> n = Len(gs)
      OBVIOUS
    <3>1. n \in 1 .. N \/ n = N + 1 \/ n = N + 2 \/ n = N + 3 \/ n = N + 4
      BY <1>7, <2>7
    <3>2. n \in 1 .. N => gs[n].event # "done" /\ n # Len(gs)
      BY <1>7, <2>7 DEF Ending
    <3> QED
      BY <1>5, <1>7, <2>7, <3>1, <3>2
  <2>9. \A n \in 1 .. Len(gs) : gs[n].event = "citations" <=> n = N + 2
    BY <1>5, <1>7, <2>7 DEF Ending
  <2>10. \A n \in 1 .. Len(gs) : gs[n].event = "usage" <=> n = N + 3
    BY <1>5, <1>7, <2>7 DEF Ending
  <2>11. N + 2 \in 1 .. Len(gs) /\ N + 3 \in 1 .. Len(gs) /\ Len(gs) > 0
    BY <1>7, <2>7
  <2>12. Ended(gs, text, counts, shown)
    BY <1>5, <2>6, <2>7, <2>8, <2>9, <2>10, <2>11 DEF Ended, cited
  <2>13. Len(gs) >= N
    BY <1>7, <2>7
  <2> QED
    BY <2>12, <2>13 DEF gs
<1> QED
  BY <1>8, <1>9, <1>10, <1>11

-----------------------------------------------------------------------------
(* A response that is finished is whole *)

AnswerInv ==
  /\ endpoint \in Endpoints
  /\ shown \in 0 .. MaxPassages
  /\ provider \in {"none", "anthropic", "openai", "unavailable"}
  /\ step \in {"request", "text", "done", "broken", "refused"}
  /\ usage \in {"zero", "some"}
  /\ reported \in BOOLEAN
  /\ said \in Seq(Seq(Alphabet))
  /\ collected \in Seq(Alphabet)
  /\ frames \in Seq(Framed)
  /\ step \in {"request", "text"} => collected = FlattenSeq(said)
  /\ step # "done" => Unended(frames)
  /\ step = "request" \/ (step = "text" /\ ~Streaming) => said = <<>> /\ ~reported
  /\ step \in {"request", "refused"} => frames = <<>>
  /\ step = "text" => Text(frames) = IF endpoint = "complete" THEN <<>> ELSE collected
  /\ step # "done" /\ reported => usage = "some"
  /\ step = "done" => \E counts \in {"none", "zero", "some"} :
                        /\ Ended(frames, FlattenSeq(said), counts, shown)
                        /\ reported => counts = "some"

LEMMA AnswerInvInit == AnswerInit => AnswerInv
<1> SUFFICES ASSUME AnswerInit PROVE AnswerInv
  OBVIOUS
<1> USE DEF AnswerInit
<1>1. provider \in {"none", "anthropic", "openai", "unavailable"}
  <2>1. \A s \in LLMSettings : _provider(s) \in {"none", "anthropic", "openai", "unavailable"}
    BY DEF LLMSettings, _provider
  <2> QED
    BY <2>1
<1>2. <<>> \in Seq(Seq(Alphabet)) /\ <<>> \in Seq(Alphabet) /\ <<>> \in Seq(Framed) /\ Len(<<>>) = 0
  BY EmptySeq
<1>3. FlattenSeq(<<>>) = <<>>
  BY <1>2 DEF FlattenSeq
<1>4. Unended(frames)
  <2>1. Len(frames) = 0
    BY <1>2
  <2> QED
    BY <2>1 DEF Unended
<1> QED
  BY <1>1, <1>2, <1>3, <1>4 DEF AnswerInv

LEMMA FlattenOne ==
  ASSUME NEW X, NEW s \in Seq(X)
  PROVE  FlattenSeq(<<s>>) = s
<1>1. <<>> \in Seq(Seq(X)) /\ Len(<<>>) = 0
  BY EmptySeq
<1>2. FlattenSeq(<<>>) = <<>>
  BY <1>1 DEF FlattenSeq
<1>3. FlattenSeq(Append(<<>>, s)) = <<>> \o s
  BY <1>1, <1>2, FlattenAppend
<1>4. Append(<<>>, s) = <<s>>
  OBVIOUS
<1> QED
  BY <1>3, <1>4, ConcatEmptySeq

LEMMA Extracted ==
  ASSUME NEW snippet \in Seq(Alphabet), shown \in 0 .. MaxPassages
  PROVE  _extractive_answer(snippet) \in Seq(Alphabet)
<1> DEFINE part(n) == <<"[", Numeral[n], "]">> \o snippet
           parts == [n \in 1 .. shown |-> part(n)]
<1>1. MaxPassages \in {0, 1, 2}
  BY AnswerAssumption DEF Numeral
<1>2. \A n \in 1 .. shown : Numeral[n] \in {"1", "2"}
  BY <1>1 DEF Numeral
<1>3. \A n \in 1 .. shown : <<"[", Numeral[n], "]">> \in Seq(Alphabet)
  BY <1>2 DEF Alphabet, Digit
<1>4. \A n \in 1 .. shown : part(n) \in Seq(Alphabet)
  BY <1>3, ConcatProperties
<1>5. shown \in Nat
  BY <1>1
<1> HIDE DEF part
<1>6. parts \in [1 .. shown -> Seq(Alphabet)]
  BY <1>4
<1>7. parts \in Seq(Seq(Alphabet))
  BY <1>5, <1>6, SeqDef
<1> HIDE DEF parts
<1>8. FlattenSeq(parts) \in Seq(Alphabet)
  <2>1. <<>> \in Seq(Alphabet)
    BY EmptySeq
  <2> QED
    BY <1>7, <2>1, FlattenAppend
<1> QED
  BY <1>8 DEF parts, part, _extractive_answer

(* What the endpoint yields for a delta is its text, or nothing yet.       *)
LEMMA DeltaText ==
  ASSUME NEW fs \in Seq(Framed), Unended(fs), NEW text \in Seq(Alphabet)
  PROVE  LET gs == fs \o DeltaFrames(text) IN
         /\ gs \in Seq(Framed) /\ Unended(gs) /\ Len(gs) >= Len(fs)
         /\ Text(gs) = IF endpoint = "complete" THEN Text(fs) ELSE Text(fs) \o text
<1> DEFINE f == Frame("delta", "object", text)
           gs == fs \o DeltaFrames(text)
<1>1. f \in Framed /\ TextOf(f) = text /\ f.event = "delta"
  <2>1. Alphabet \subseteq Alphabet \cup Nat \cup {"zero", "some"}
    OBVIOUS
  <2>2. text \in Values
    BY <2>1, SeqMonotonic DEF Values
  <2> QED
    BY <2>2 DEF Framed, FrameSet, Frame, TextOf, Events
<1>2. CASE endpoint = "complete"
  <2>1. gs = fs
    BY <1>2, ConcatEmptySeq DEF DeltaFrames
  <2>2. Len(fs) \in Nat
    BY LenProperties
  <2> QED
    BY <1>2, <2>1, <2>2
<1>3. CASE endpoint # "complete"
  <2>1. DeltaFrames(text) = <<f>>
    BY <1>3 DEF DeltaFrames
  <2> HIDE DEF f
  <2>2. gs = Append(fs, f)
    BY <1>1, <2>1, Appended
  <2>3. gs \in Seq(Framed) /\ Text(gs) = Text(fs) \o text
    BY <1>1, <2>2, TextAppend
  <2>4. /\ Len(fs) \in Nat /\ Len(gs) = Len(fs) + 1 /\ gs[Len(fs) + 1] = f
        /\ \A n \in 1 .. Len(fs) : gs[n] = fs[n]
    BY <1>1, <2>2, AppendProperties, LenProperties
  <2>5. Unended(gs)
    BY <1>1, <2>4 DEF Unended, Ending
  <2>6. Len(gs) >= Len(fs)
    BY <2>4
  <2> QED
    BY <1>3, <2>3, <2>5, <2>6
<1> QED
  BY <1>2, <1>3

LEMMA AnswerInvNext == AnswerInv /\ [AnswerNext]_avars => AnswerInv'
<1> SUFFICES ASSUME AnswerInv, [AnswerNext]_avars PROVE AnswerInv'
  OBVIOUS
<1> USE DEF AnswerInv
<1>1. endpoint \in {"ask", "stream", "complete"} /\ shown \in Nat /\ MaxPassages \in Nat
  BY AnswerAssumption DEF Numeral
<1>2. <<>> \in Seq(Seq(Alphabet)) /\ <<>> \in Seq(Alphabet) /\ <<>> \in Seq(Framed) /\ Len(<<>>) = 0
  BY EmptySeq
<1>3. FlattenSeq(<<>>) = <<>> /\ Text(<<>>) = <<>>
  BY <1>2, TextEmpty DEF FlattenSeq
<1>4. \A d \in Deltas : d \in Seq(Alphabet)
  BY AnswerAssumption DEF Alphabet
<1>5. ASSUME NEW f \in Framed, f.event \in {"role", "passages"}
      PROVE  <<f>> \in Seq(Framed) /\ Unended(<<f>>) /\ Text(<<f>>) = <<>>
  <2>1. Append(<<>>, f) = <<f>>
    OBVIOUS
  <2>2. <<f>> \in Seq(Framed) /\ Text(<<f>>) = <<>> \o TextOf(f)
    BY <1>2, <1>3, <2>1, TextAppend
  <2>3. TextOf(f) = <<>>
    BY <1>5 DEF TextOf
  <2>4. Unended(<<f>>)
    BY <1>5 DEF Unended, Ending
  <2> QED
    BY <1>2, <2>2, <2>3, <2>4, ConcatEmptySeq
<1>6. CASE ask
  <2> DEFINE f == Frame("passages", "array", [n \in 1 .. shown |-> n])
  <2>1. [n \in 1 .. shown |-> n] \in Values
    <3>1. [n \in 1 .. shown |-> n] \in [1 .. shown -> Alphabet \cup Nat \cup {"zero", "some"}]
      BY <1>1
    <3> QED
      BY <1>1, <3>1, SeqDef DEF Values
  <2>2. f \in Framed /\ f.event = "passages"
    BY <1>2, <2>1 DEF Framed, FrameSet, Frame, TextOf, Events
  <2>3. frames' = <<f>> /\ step' = "text" /\ endpoint = "ask"
    BY <1>6 DEF ask
  <2> HIDE DEF f
  <2>4. frames' \in Seq(Framed) /\ Unended(frames)' /\ Text(frames)' = <<>>
    BY <1>5, <2>2, <2>3 DEF Unended, Text
  <2> QED
    BY <1>3, <1>6, <2>3, <2>4 DEF ask, Streaming
<1>7. CASE chat_completions
  <2> DEFINE f == Frame("role", "object", <<>>)
  <2>1. <<>> \in Values
    BY EmptySeq DEF Values
  <2>2. f \in Framed /\ f.event = "role"
    BY <1>2, <2>1 DEF Framed, FrameSet, Frame, TextOf, Events
  <2>3. step' \in {"refused", "text"}
    BY <1>7 DEF chat_completions
  <2>4. frames' = IF step' = "text" /\ endpoint = "stream" THEN <<f>> ELSE <<>>
    BY <1>7 DEF chat_completions
  <2> HIDE DEF f
  <2>5. frames' \in Seq(Framed) /\ Unended(frames)' /\ Text(frames)' = <<>>
    BY <1>2, <1>3, <1>5, <2>2, <2>4 DEF Unended, Text
  <2> QED
    BY <1>3, <1>7, <2>3, <2>4, <2>5 DEF chat_completions, Streaming
<1>8. ASSUME NEW text \in Seq(Alphabet), ReplyWith(text), step = "text", ~Streaming
      PROVE  AnswerInv'
  <2> DEFINE fs == frames \o DeltaFrames(text)
             gs == fs \o LastFrames(text, "none")
  <2>1. said = <<>> /\ ~reported /\ Unended(frames) /\ Text(frames) = <<>>
    BY <1>3, <1>8
  <2>2. /\ fs \in Seq(Framed) /\ Unended(fs)
        /\ Text(fs) = IF endpoint = "complete" THEN <<>> ELSE text
    <3>1. <<>> \o text = text
      BY ConcatEmptySeq
    <3> QED
      BY <2>1, <3>1, DeltaText
  <2> HIDE DEF fs
  <2>3. Ended(gs, text, "none", shown)
    BY <1>1, <2>2, LastFramesEnd
  <2>4. frames' = gs
    BY <1>8 DEF ReplyWith, fs
  <2> HIDE DEF gs
  <2>5. said' = <<text>> /\ said' \in Seq(Seq(Alphabet)) /\ FlattenSeq(said') = text
    BY <1>8, FlattenOne DEF ReplyWith
  <2>6. Ended(frames', FlattenSeq(said'), "none", shown')
    BY <1>8, <2>3, <2>4, <2>5 DEF ReplyWith
  <2>7. \E counts \in {"none", "zero", "some"} :
          /\ Ended(frames, FlattenSeq(said), counts, shown)'
          /\ reported' => counts = "some"
    BY <1>8, <2>1, <2>6 DEF ReplyWith
  <2>8. frames' \in Seq(Framed)
    BY <2>3, <2>4 DEF Ended
  <2> QED
    BY <1>8, <2>5, <2>7, <2>8 DEF ReplyWith
<1>9. CASE apologize
  <2>1. <<>> \in Seq(Alphabet)
    BY <1>2
  <2>2. ReplyWith(<<>>) /\ step = "text" /\ ~Streaming
    BY <1>9 DEF apologize, Streaming
  <2> QED
    BY ONLY <1>8, <2>1, <2>2
<1>10. CASE extract
  <2>1. PICK snippet \in Deltas : ReplyWith(_extractive_answer(snippet))
    BY <1>10 DEF extract
  <2>2. _extractive_answer(snippet) \in Seq(Alphabet)
    BY <1>4, <2>1, Extracted
  <2> QED
    BY <1>8, <1>10, <2>1, <2>2 DEF extract, Streaming
<1>11. CASE stream_text
  <2>1. PICK delta \in Deltas : /\ collected' = collected \o delta
                                /\ frames' = frames \o DeltaFrames(delta)
                                /\ said' = Append(said, delta)
    BY <1>11 DEF stream_text
  <2>2. step = "text" /\ delta \in Seq(Alphabet)
    BY <1>4, <1>11 DEF stream_text, Streaming
  <2>3. collected' \in Seq(Alphabet)
    BY <2>1, <2>2, ConcatProperties
  <2>4. said' \in Seq(Seq(Alphabet))
    BY <2>1, <2>2, AppendProperties
  <2>5. FlattenSeq(said') = collected'
    BY <2>1, <2>2, FlattenAppend
  <2>6. /\ frames' \in Seq(Framed) /\ Unended(frames')
        /\ Text(frames') = IF endpoint = "complete" THEN Text(frames) ELSE Text(frames) \o delta
    BY <2>1, <2>2, DeltaText
  <2>7. Text(frames') = IF endpoint = "complete" THEN <<>> ELSE collected'
    BY <2>1, <2>2, <2>6
  <2>8. Streaming' /\ step' = "text"
    BY <1>11 DEF stream_text, Streaming, available
  <2> QED
    BY <1>11, <2>3, <2>4, <2>5, <2>6, <2>7, <2>8 DEF stream_text, Unended, Text
<1>12. CASE usage_chunk
  <2>1. Streaming' /\ step' = "text" /\ step = "text"
    BY <1>12 DEF usage_chunk, Streaming, available
  <2> QED
    BY <1>12, <2>1 DEF usage_chunk, Unended, Text
<1>13. CASE conclude
  <2> DEFINE gs == frames \o LastFrames(collected, final_usage)
  <2>1. /\ step = "text" /\ Unended(frames) /\ collected = FlattenSeq(said)
        /\ Text(frames) = IF endpoint = "complete" THEN <<>> ELSE collected
        /\ final_usage \in {"zero", "some"}
    BY <1>13 DEF conclude, Streaming, final_usage
  <2>2. Ended(gs, collected, final_usage, shown)
    BY <1>1, <2>1, LastFramesEnd
  <2>3. frames' = gs
    BY <1>13 DEF conclude
  <2> HIDE DEF gs
  <2>4. reported' => final_usage = "some"
    BY <1>13, <2>1 DEF conclude, final_usage
  <2>5. UNCHANGED <<said, shown>>
    BY <1>13 DEF conclude
  <2>6. Ended(frames', FlattenSeq(said'), final_usage, shown')
    BY <2>1, <2>2, <2>3, <2>5
  <2>7. frames' \in Seq(Framed)
    BY <2>2, <2>3 DEF Ended
  <2> QED
    BY <1>13, <2>1, <2>4, <2>6, <2>7 DEF conclude
<1>14. CASE provider_fails
  BY <1>14 DEF provider_fails, Unended, Streaming
<1>15. CASE UNCHANGED avars
  BY <1>15 DEF avars, Unended, Text, Streaming, available, Ended
<1> QED
  BY <1>6, <1>7, <1>9, <1>10, <1>11, <1>12, <1>13, <1>14, <1>15 DEF AnswerNext, Respond

(* What the invariant says of a response that is finished.                 *)
LEMMA FinishedFollows == AnswerInv => FinishedIsWhole
<1> SUFFICES ASSUME AnswerInv, frames # <<>>, Last(frames).event = "done" PROVE
      LET text == FlattenSeq(said)  cited == ValueOf("citations") IN
      /\ step = "done"
      /\ Text(frames) = text
      /\ ToSet(cited) = {m \in 1 .. shown : m \in Markers(text)}
      /\ \A k, l \in DOMAIN cited : k < l => cited[k] < cited[l]
      /\ reported => ValueOf("usage") = <<"some">>
  BY DEF FinishedIsWhole
<1> DEFINE text == FlattenSeq(said)
<1>1. frames \in Seq(Framed) /\ Len(frames) \in Nat /\ DOMAIN frames = 1 .. Len(frames) /\ shown \in Nat
  BY LenProperties, AnswerAssumption DEF AnswerInv, Numeral
<1>2. Len(frames) \in 1 .. Len(frames)
  BY <1>1, EmptySeq
<1>3. step = "done"
  BY <1>2 DEF AnswerInv, Unended, Ending, Last
<1>4. PICK counts \in {"none", "zero", "some"} :
             Ended(frames, text, counts, shown) /\ (reported => counts = "some")
  BY <1>3 DEF AnswerInv
<1> HIDE DEF text
<1>5. Text(frames) = text
  BY <1>4 DEF Ended
<1>6. ASSUME NEW event, NEW k \in 1 .. Len(frames),
             \A n \in 1 .. Len(frames) : frames[n].event = event <=> n = k
      PROVE  ValueOf(event) = frames[k].value
  <2>1. {n \in DOMAIN frames : frames[n].event = event} = {k}
    BY <1>1, <1>6
  <2>2. Max({k}) = k
    BY <1>1, GreatestIs
  <2> QED
    BY <2>1, <2>2 DEF ValueOf
<1>7. ValueOf("citations") = resolve_citations(text, shown)
  <2>1. PICK c \in 1 .. Len(frames) :
          /\ \A n \in 1 .. Len(frames) : frames[n].event = "citations" <=> n = c
          /\ frames[c].value = resolve_citations(text, shown)
    BY <1>4 DEF Ended
  <2> QED
    BY <1>6, <2>1
<1>8. reported => ValueOf("usage") = <<"some">>
  <2> SUFFICES ASSUME reported PROVE ValueOf("usage") = <<"some">>
    OBVIOUS
  <2>1. PICK u \in 1 .. Len(frames) :
          /\ \A n \in 1 .. Len(frames) : frames[n].event = "usage" <=> n = u
          /\ frames[u].value = <<"some">>
    BY <1>4 DEF Ended
  <2> QED
    BY <1>6, <2>1
<1> QED
  BY <1>1, <1>3, <1>5, <1>7, <1>8, Cited DEF text

-----------------------------------------------------------------------------
(* The stream *)

LEMMA StreamStepAnswers == [StreamNext]_svars => [AnswerNext]_avars
BY DEF StreamNext, svars, bvars, answer, ping, streamEvents

(* FinishedIsWhole: a response that ends as the protocol wants it is whole, *)
(* wherever the provider cut the text, whatever the settings and through    *)
(* whichever endpoint (answer_stream, ask, chat_completions).               *)
THEOREM FinishedCorrect == StreamSpec => []FinishedIsWhole
<1>1. StreamInit => AnswerInv
  BY AnswerInvInit DEF StreamInit
<1>2. AnswerInv /\ [StreamNext]_svars => AnswerInv'
  BY AnswerInvNext, StreamStepAnswers
<1> QED
  BY <1>1, <1>2, FinishedFollows, PTL DEF StreamSpec

(* The wire: a data line comes with its event line before it and the ends  *)
(* of lines after it, and a later one is that of a later frame.            *)
Token == {CR, LF, <<":", 0>>} \cup ({"event", "data"} \X Nat)
IsData(x) == x[1] = "data"
IsEvent(x) == x[1] = "event"

DataAt(w, p) ==
  IsData(w[p]) =>
    /\ p > 3 /\ w[p - 3] = <<"event", w[p][2]>> /\ w[p - 2] = CR /\ w[p - 1] = LF
    /\ p + 4 <= Len(w) /\ w[p + 1] = CR /\ w[p + 2] = LF /\ w[p + 3] = CR /\ w[p + 4] = LF
EndsAt(w, p) ==
  /\ w[p] = CR => p < Len(w) /\ w[p + 1] = LF
  /\ w[p] = LF => p > 1 /\ w[p - 1] = CR

WireOK(w, sent) ==
  /\ w \in Seq(Token)
  /\ \A p \in 1 .. Len(w) : DataAt(w, p) /\ EndsAt(w, p)
  /\ \A p \in 1 .. Len(w) : IsData(w[p]) => w[p][2] <= sent
  /\ \A p, q \in 1 .. Len(w) : p < q /\ IsData(w[p]) /\ IsData(w[q]) => w[p][2] < w[q][2]

LEMMA Tokens ==
  /\ CR \in Token /\ LF \in Token /\ CR # LF
  /\ ~IsData(CR) /\ ~IsData(LF) /\ ~IsEvent(CR) /\ ~IsEvent(LF)
  /\ \A x \in Token : IsData(x) => x = <<"data", x[2]>> /\ x[2] \in Nat
  /\ \A x \in Token : IsEvent(x) => x = <<"event", x[2]>> /\ x[2] \in Nat
  /\ \A x \in Token : ~(IsData(x) /\ IsEvent(x))
  /\ \A n : IsData(<<"data", n>>) /\ ~IsData(<<"event", n>>) /\ IsEvent(<<"event", n>>)
BY DEF Token, CR, LF, IsData, IsEvent

LEMMA Associative ==
  \A X : \A a, b, c \in Seq(X) : (a \o b) \o c = a \o (b \o c)
<1> SUFFICES ASSUME NEW X, NEW a \in Seq(X), NEW b \in Seq(X), NEW c \in Seq(X)
             PROVE  (a \o b) \o c = a \o (b \o c)
  OBVIOUS
<1> QED
  OBVIOUS

LEMMA Joined ==
  ASSUME NEW X, NEW s \in Seq(X), NEW t \in Seq(X)
  PROVE  /\ s \o t \in Seq(X) /\ Len(s \o t) = Len(s) + Len(t)
         /\ Len(s) \in Nat /\ Len(t) \in Nat
         /\ \A p \in 1 .. Len(s) : (s \o t)[p] = s[p]
         /\ \A p \in 1 .. Len(t) : (s \o t)[Len(s) + p] = t[p]
<1> DEFINE v == s \o t
<1>1. Len(s) \in Nat /\ Len(t) \in Nat
  BY LenProperties
<1>2. /\ v \in Seq(X) /\ Len(v) = Len(s) + Len(t)
      /\ \A p \in 1 .. Len(s) + Len(t) : v[p] = IF p <= Len(s) THEN s[p] ELSE t[p - Len(s)]
  BY ConcatProperties
<1> HIDE DEF v
<1>3. \A p \in 1 .. Len(s) : v[p] = s[p]
  BY <1>1, <1>2
<1>4. \A p \in 1 .. Len(t) : v[Len(s) + p] = t[p]
  <2> SUFFICES ASSUME NEW p \in 1 .. Len(t) PROVE v[Len(s) + p] = t[p]
    OBVIOUS
  <2>1. /\ Len(s) + p \in 1 .. Len(s) + Len(t) /\ ~(Len(s) + p <= Len(s))
        /\ (Len(s) + p) - Len(s) = p
    BY <1>1
  <2> QED
    BY <1>2, <2>1
<1> QED
  BY <1>1, <1>2, <1>3, <1>4 DEF v

LEMMA WireKept ==
  ASSUME NEW w \in Seq(Token), NEW v \in Seq(Token), Len(w) <= Len(v),
         \A p \in 1 .. Len(w) : v[p] = w[p],
         NEW p \in 1 .. Len(w), DataAt(w, p), EndsAt(w, p)
  PROVE  DataAt(v, p) /\ EndsAt(v, p)
<1>1. Len(w) \in Nat /\ Len(v) \in Nat
  BY LenProperties
<1>2. v[p] = w[p]
  OBVIOUS
<1>3. ASSUME IsData(w[p])
      PROVE  /\ p > 3 /\ v[p - 3] = <<"event", v[p][2]>> /\ v[p - 2] = CR /\ v[p - 1] = LF
             /\ p + 4 <= Len(v)
             /\ v[p + 1] = CR /\ v[p + 2] = LF /\ v[p + 3] = CR /\ v[p + 4] = LF
  <2>1. /\ p > 3 /\ w[p - 3] = <<"event", w[p][2]>> /\ w[p - 2] = CR /\ w[p - 1] = LF
        /\ p + 4 <= Len(w) /\ w[p + 1] = CR /\ w[p + 2] = LF /\ w[p + 3] = CR /\ w[p + 4] = LF
    BY <1>3 DEF DataAt
  <2>2. /\ p - 3 \in 1 .. Len(w) /\ p - 2 \in 1 .. Len(w) /\ p - 1 \in 1 .. Len(w)
        /\ p + 1 \in 1 .. Len(w) /\ p + 2 \in 1 .. Len(w) /\ p + 3 \in 1 .. Len(w)
        /\ p + 4 \in 1 .. Len(w)
    BY <1>1, <2>1
  <2>3. /\ v[p - 3] = w[p - 3] /\ v[p - 2] = w[p - 2] /\ v[p - 1] = w[p - 1]
        /\ v[p + 1] = w[p + 1] /\ v[p + 2] = w[p + 2] /\ v[p + 3] = w[p + 3]
        /\ v[p + 4] = w[p + 4]
    BY <2>2
  <2>4. p + 4 <= Len(v)
    BY <1>1, <2>1
  <2> QED
    BY <1>2, <2>1, <2>3, <2>4
<1>4. DataAt(v, p)
  BY <1>2, <1>3 DEF DataAt
<1>5. v[p] = CR => p < Len(v) /\ v[p + 1] = LF
  <2> SUFFICES ASSUME v[p] = CR PROVE p < Len(v) /\ v[p + 1] = LF
    OBVIOUS
  <2>1. p < Len(w) /\ w[p + 1] = LF
    BY <1>2 DEF EndsAt
  <2>2. p + 1 \in 1 .. Len(w)
    BY <1>1, <2>1
  <2> QED
    BY <1>1, <2>1, <2>2
<1>6. v[p] = LF => p > 1 /\ v[p - 1] = CR
  <2> SUFFICES ASSUME v[p] = LF PROVE p > 1 /\ v[p - 1] = CR
    OBVIOUS
  <2>1. p > 1 /\ w[p - 1] = CR
    BY <1>2 DEF EndsAt
  <2>2. p - 1 \in 1 .. Len(w)
    BY <1>1, <2>1
  <2> QED
    BY <2>1, <2>2
<1> QED
  BY <1>4, <1>5, <1>6 DEF EndsAt

LEMMA WireFrame ==
  ASSUME NEW sent \in Nat, NEW w, WireOK(w, sent)
  PROVE  WireOK(w \o Written(sent + 1), sent + 1)
<1> DEFINE n == sent + 1
           u == Written(n)
           v == w \o u
           N == Len(w)
<1>1. /\ u \in Seq(Token) /\ Len(u) = 8
      /\ u[1] = <<"event", n>> /\ u[2] = CR /\ u[3] = LF /\ u[4] = <<"data", n>>
      /\ u[5] = CR /\ u[6] = LF /\ u[7] = CR /\ u[8] = LF
  <2>1. <<"event", n>> \in Token /\ <<"data", n>> \in Token /\ CR \in Token /\ LF \in Token
    BY DEF Token
  <2>2. u = <<<<"event", n>>, CR, LF, <<"data", n>>, CR, LF, CR, LF>>
    BY DEF Written
  <2> HIDE DEF u
  <2> QED
    BY <2>1, <2>2
<1> HIDE DEF u
<1>2. w \in Seq(Token) /\ N \in Nat
  BY LenProperties DEF WireOK
<1>3. /\ v \in Seq(Token) /\ Len(v) = N + 8
      /\ \A p \in 1 .. N : v[p] = w[p]
      /\ \A p \in 1 .. 8 : v[N + p] = u[p]
  <2>1. /\ w \o u \in Seq(Token) /\ Len(w \o u) = Len(w) + Len(u)
        /\ Len(w) \in Nat /\ Len(u) \in Nat
        /\ \A p \in 1 .. Len(w) : (w \o u)[p] = w[p]
        /\ \A p \in 1 .. Len(u) : (w \o u)[Len(w) + p] = u[p]
    <3>1. w \in Seq(Token) /\ u \in Seq(Token)
      BY <1>1, <1>2
    <3> QED
      BY ONLY <3>1, Joined
  <2> QED
    BY <1>1, <2>1
<1>4. /\ v[N + 1] = <<"event", n>> /\ v[N + 2] = CR /\ v[N + 3] = LF /\ v[N + 4] = <<"data", n>>
      /\ v[N + 5] = CR /\ v[N + 6] = LF /\ v[N + 7] = CR /\ v[N + 8] = LF
  BY <1>1, <1>2, <1>3
<1> HIDE DEF v
<1>5. \A p \in 1 .. Len(v) : \/ p \in 1 .. N
                             \/ p \in {N + 1, N + 2, N + 3, N + 4, N + 5, N + 6, N + 7, N + 8}
  <2>1. Len(v) = N + 8
    BY <1>3
  <2> HIDE DEF N
  <2> QED
    BY ONLY <1>2, <2>1
<1>6. \A p \in 1 .. N : DataAt(v, p) /\ EndsAt(v, p)
  <2> SUFFICES ASSUME NEW p \in 1 .. N PROVE DataAt(v, p) /\ EndsAt(v, p)
    OBVIOUS
  <2>1. DataAt(w, p) /\ EndsAt(w, p) /\ Len(w) <= Len(v)
    BY <1>2, <1>3 DEF WireOK
  <2> QED
    BY <1>2, <1>3, <2>1, WireKept
<1>7. /\ ~IsData(v[N + 1]) /\ ~IsData(v[N + 2]) /\ ~IsData(v[N + 3]) /\ IsData(v[N + 4])
      /\ ~IsData(v[N + 5]) /\ ~IsData(v[N + 6]) /\ ~IsData(v[N + 7]) /\ ~IsData(v[N + 8])
      /\ v[N + 4][2] = n
      /\ v[N + 1] \notin {CR, LF} /\ v[N + 4] \notin {CR, LF}
  BY <1>4 DEF IsData, CR, LF
<1>8. ASSUME NEW p \in {N + 1, N + 2, N + 3, N + 4, N + 5, N + 6, N + 7, N + 8}
      PROVE  DataAt(v, p)
  <2>1. CASE p # N + 4
    BY <1>7, <2>1 DEF DataAt
  <2>2. CASE p = N + 4
    <3>1. /\ p - 3 = N + 1 /\ p - 2 = N + 2 /\ p - 1 = N + 3 /\ p + 1 = N + 5 /\ p + 2 = N + 6
          /\ p + 3 = N + 7 /\ p + 4 = N + 8 /\ p > 3
      BY <1>2, <2>2
    <3> QED
      BY <1>3, <1>4, <1>7, <2>2, <3>1 DEF DataAt
  <2> QED
    BY <2>1, <2>2
<1>9. ASSUME NEW p \in {N + 1, N + 2, N + 3, N + 4, N + 5, N + 6, N + 7, N + 8}
      PROVE  EndsAt(v, p)
  <2>1. CASE p \in {N + 1, N + 4}
    BY <1>7, <2>1 DEF EndsAt
  <2>2. CASE p \in {N + 2, N + 5, N + 7}
    <3>1. v[p] = CR /\ v[p + 1] = LF /\ p < Len(v)
      <4>1. CASE p = N + 2
        <5>1. p + 1 = N + 3 /\ p < N + 8
          BY <1>2, <4>1
        <5> QED
          BY <1>3, <1>4, <4>1, <5>1
      <4>2. CASE p = N + 5
        <5>1. p + 1 = N + 6 /\ p < N + 8
          BY <1>2, <4>2
        <5> QED
          BY <1>3, <1>4, <4>2, <5>1
      <4>3. CASE p = N + 7
        <5>1. p + 1 = N + 8 /\ p < N + 8
          BY <1>2, <4>3
        <5> QED
          BY <1>3, <1>4, <4>3, <5>1
      <4> QED
        BY <4>1, <4>2, <4>3, <2>2
    <3> QED
      BY <3>1, Tokens DEF EndsAt
  <2>3. CASE p \in {N + 3, N + 6, N + 8}
    <3>1. v[p] = LF /\ v[p - 1] = CR /\ p > 1
      <4>1. CASE p = N + 3
        <5>1. p - 1 = N + 2 /\ p > 1
          BY <1>2, <4>1
        <5> QED
          BY <1>4, <4>1, <5>1
      <4>2. CASE p = N + 6
        <5>1. p - 1 = N + 5 /\ p > 1
          BY <1>2, <4>2
        <5> QED
          BY <1>4, <4>2, <5>1
      <4>3. CASE p = N + 8
        <5>1. p - 1 = N + 7 /\ p > 1
          BY <1>2, <4>3
        <5> QED
          BY <1>4, <4>3, <5>1
      <4> QED
        BY <4>1, <4>2, <4>3, <2>3
    <3> QED
      BY <3>1, Tokens DEF EndsAt
  <2> QED
    BY <2>1, <2>2, <2>3
<1>10. \A p \in 1 .. N : IsData(v[p]) => v[p][2] <= sent
  BY <1>3 DEF WireOK
<1>11. \A p \in 1 .. Len(v) : IsData(v[p]) => p \in 1 .. N \/ p = N + 4
  BY <1>5, <1>7
<1>12. \A p \in 1 .. N : IsData(v[p]) => v[p][2] \in Nat
  BY <1>2, <1>3, Tokens, ElementOfSeq
<1>13. \A p \in 1 .. Len(v) : IsData(v[p]) => v[p][2] <= n
  BY <1>7, <1>10, <1>11, <1>12
<1>14. \A p, q \in 1 .. Len(v) : p < q /\ IsData(v[p]) /\ IsData(v[q]) => v[p][2] < v[q][2]
  <2> SUFFICES ASSUME NEW p \in 1 .. Len(v), NEW q \in 1 .. Len(v),
                      p < q, IsData(v[p]), IsData(v[q])
               PROVE  v[p][2] < v[q][2]
    OBVIOUS
  <2>1. p \in 1 .. N /\ (q \in 1 .. N \/ q = N + 4)
    BY <1>2, <1>11
  <2>2. CASE q \in 1 .. N
    BY <1>3, <2>1, <2>2 DEF WireOK
  <2>3. CASE q = N + 4
    <3>1. v[p][2] \in Nat /\ v[p][2] <= sent /\ v[q][2] = sent + 1
      BY <1>7, <1>10, <1>12, <2>1, <2>3
    <3> QED
      BY <3>1
  <2> QED
    BY <2>1, <2>2, <2>3
<1> QED
  BY <1>3, <1>5, <1>6, <1>8, <1>9, <1>13, <1>14 DEF WireOK, v, u

LEMMA WireComment ==
  ASSUME NEW sent \in Nat, NEW w, WireOK(w, sent)
  PROVE  WireOK(w \o Comment, sent)
<1> DEFINE u == Comment
           v == w \o u
           N == Len(w)
<1>1. /\ u \in Seq(Token) /\ Len(u) = 5
      /\ u[1] = <<":", 0>> /\ u[2] = CR /\ u[3] = LF /\ u[4] = CR /\ u[5] = LF
  <2>1. <<":", 0>> \in Token /\ CR \in Token /\ LF \in Token
    BY DEF Token
  <2>2. u = <<<<":", 0>>, CR, LF, CR, LF>>
    BY DEF Comment
  <2> HIDE DEF u
  <2> QED
    BY <2>1, <2>2
<1> HIDE DEF u
<1>2. w \in Seq(Token) /\ N \in Nat
  BY LenProperties DEF WireOK
<1>3. /\ v \in Seq(Token) /\ Len(v) = N + 5
      /\ \A p \in 1 .. N : v[p] = w[p]
      /\ \A p \in 1 .. 5 : v[N + p] = u[p]
  <2>1. /\ w \o u \in Seq(Token) /\ Len(w \o u) = Len(w) + Len(u)
        /\ Len(w) \in Nat /\ Len(u) \in Nat
        /\ \A p \in 1 .. Len(w) : (w \o u)[p] = w[p]
        /\ \A p \in 1 .. Len(u) : (w \o u)[Len(w) + p] = u[p]
    <3>1. w \in Seq(Token) /\ u \in Seq(Token)
      BY <1>1, <1>2
    <3> QED
      BY ONLY <3>1, Joined
  <2> QED
    BY <1>1, <2>1
<1>4. /\ v[N + 1] = <<":", 0>> /\ v[N + 2] = CR /\ v[N + 3] = LF
      /\ v[N + 4] = CR /\ v[N + 5] = LF
  BY <1>1, <1>2, <1>3
<1> HIDE DEF v
<1>5. \A p \in 1 .. Len(v) : p \in 1 .. N \/ p \in {N + 1, N + 2, N + 3, N + 4, N + 5}
  BY <1>2, <1>3
<1>6. \A p \in 1 .. N : DataAt(v, p) /\ EndsAt(v, p)
  <2> SUFFICES ASSUME NEW p \in 1 .. N PROVE DataAt(v, p) /\ EndsAt(v, p)
    OBVIOUS
  <2>1. DataAt(w, p) /\ EndsAt(w, p) /\ Len(w) <= Len(v)
    BY <1>2, <1>3 DEF WireOK
  <2> QED
    BY <1>2, <1>3, <2>1, WireKept
<1>7. /\ \A p \in {N + 1, N + 2, N + 3, N + 4, N + 5} : ~IsData(v[p])
      /\ v[N + 1] \notin {CR, LF}
  BY <1>4 DEF IsData, CR, LF
<1>8. ASSUME NEW p \in {N + 1, N + 2, N + 3, N + 4, N + 5}
      PROVE  DataAt(v, p) /\ EndsAt(v, p)
  <2>1. DataAt(v, p)
    BY <1>7 DEF DataAt
  <2>2. CASE p = N + 1
    BY <1>7, <2>1, <2>2 DEF EndsAt
  <2>3. CASE p \in {N + 2, N + 4}
    <3>1. v[p] = CR /\ v[p + 1] = LF /\ p < Len(v)
      BY <1>2, <1>3, <1>4, <2>3
    <3> QED
      BY <2>1, <3>1, Tokens DEF EndsAt
  <2>4. CASE p \in {N + 3, N + 5}
    <3>1. v[p] = LF /\ v[p - 1] = CR /\ p > 1
      BY <1>2, <1>3, <1>4, <2>4
    <3> QED
      BY <2>1, <3>1, Tokens DEF EndsAt
  <2> QED
    BY <2>2, <2>3, <2>4
<1>9. \A p \in 1 .. Len(v) : IsData(v[p]) => p \in 1 .. N /\ v[p] = w[p]
  BY <1>3, <1>5, <1>7
<1>10. \A p \in 1 .. Len(v) : IsData(v[p]) => v[p][2] <= sent
  BY <1>9 DEF WireOK
<1>11. \A p, q \in 1 .. Len(v) : p < q /\ IsData(v[p]) /\ IsData(v[q]) => v[p][2] < v[q][2]
  BY <1>9 DEF WireOK
<1> QED
  BY <1>3, <1>5, <1>6, <1>8, <1>10, <1>11 DEF WireOK, v, u

(* The frames of one step of the endpoint. *)
LEMMA WireFrames ==
  ASSUME NEW sent \in Nat, NEW w, WireOK(w, sent), NEW n \in Nat
  PROVE  LET v == w \o FlattenSeq([k \in 1 .. n |-> Written(sent + k)]) IN
         /\ WireOK(v, sent + n) /\ Len(v) >= Len(w)
         /\ \A p \in 1 .. Len(w) : v[p] = w[p]
<1> DEFINE parts == [k \in 1 .. n |-> Written(sent + k)]
           v == w \o FlattenSeq(parts)
<1>0. \A a, b, c \in Seq(Token) : (a \o b) \o c = a \o (b \o c)
  BY Associative
<1>1. \A k \in Nat : Written(k) \in Seq(Token)
  <2> SUFFICES ASSUME NEW k \in Nat PROVE Written(k) \in Seq(Token)
    OBVIOUS
  <2>1. <<"event", k>> \in Token /\ <<"data", k>> \in Token /\ CR \in Token /\ LF \in Token
    BY DEF Token
  <2> HIDE DEF Token
  <2> QED
    BY <2>1 DEF Written
<1>2. parts \in [1 .. n -> Seq(Token)]
  BY <1>1
<1>3. parts \in Seq(Seq(Token)) /\ Len(parts) = n
  <2>1. \A k \in 1 .. n : parts[k] \in Seq(Token)
    BY <1>2
  <2>2. parts \in Seq(Seq(Token))
    <3> HIDE DEF parts
    <3> QED
      BY <1>2, SeqDef
  <2>3. DOMAIN parts = 1 .. n /\ DOMAIN parts = 1 .. Len(parts) /\ Len(parts) \in Nat
    BY <2>2, LenProperties
  <2> HIDE DEF parts
  <2> QED
    BY <2>2, <2>3
<1>4. w \in Seq(Token) /\ Len(w) \in Nat
  BY LenProperties DEF WireOK
<1>5. CASE n = 0
  <2>1. Len(parts) = 0 /\ parts = <<>>
    BY <1>3, <1>5, EmptySeq
  <2> HIDE DEF parts
  <2>2. FlattenSeq(parts) = <<>>
    BY <2>1 DEF FlattenSeq
  <2>3. v = w
    BY <1>4, <2>2, ConcatEmptySeq
  <2>4. sent + n = sent
    BY <1>5
  <2>5. WireOK(v, sent + n) /\ Len(v) >= Len(w) /\ \A p \in 1 .. Len(w) : v[p] = w[p]
    BY <1>4, <2>3, <2>4
  <2> QED
    BY <2>5 DEF parts
<1>6. CASE n # 0
  <2>1. \A k \in 1 .. n : parts[k] = Written(sent + k)
    OBVIOUS
  <2> HIDE DEF parts
  <2>2. \E f : /\ f \in [1 .. Len(parts) -> Seq(Token)]
               /\ f[1] = parts[1]
               /\ \A k \in 1 .. Len(parts) - 1 : f[k + 1] = f[k] \o parts[k + 1]
               /\ FlattenSeq(parts) = f[Len(parts)]
    BY <1>3, <1>6, FlattenIs
  <2>3. PICK f : /\ f \in [1 .. n -> Seq(Token)]
                 /\ f[1] = parts[1]
                 /\ \A k \in 1 .. n - 1 : f[k + 1] = f[k] \o parts[k + 1]
                 /\ FlattenSeq(parts) = f[n]
    BY <1>3, <2>2
  <2> DEFINE T == {k \in 1 .. n : ~ WireOK(w \o f[k], sent + k)}
  <2>4. T = {}
    <3> SUFFICES ASSUME T # {} PROVE FALSE
      OBVIOUS
    <3>1. PICK k \in T : \A m \in T : k <= m
      <4>1. T \in SUBSET Nat
        OBVIOUS
      <4> HIDE DEF T
      <4> QED
        BY <4>1, LeastNatural
    <3>2. k \in 1 .. n /\ ~WireOK(w \o f[k], sent + k)
      BY <3>1
    <3>3. k # 1
      <4>1. f[1] = Written(sent + 1)
        BY <1>6, <2>1, <2>3
      <4> QED
        BY <3>2, <4>1, WireFrame
    <3>4. k - 1 \in 1 .. n /\ k - 1 \in 1 .. n - 1 /\ (k - 1) + 1 = k /\ ~(k <= k - 1)
      BY <3>2, <3>3
    <3>5. k - 1 \notin T
      <4> HIDE DEF T
      <4> QED
        BY <3>1, <3>4
    <3>6. WireOK(w \o f[k - 1], sent + (k - 1))
      BY <3>4, <3>5
    <3>7. f[k] = f[k - 1] \o Written(sent + k)
      BY <2>1, <2>3, <3>2, <3>4
    <3>8. w \o f[k] = (w \o f[k - 1]) \o Written(sent + k)
      <4>1. f[k - 1] \in Seq(Token) /\ Written(sent + k) \in Seq(Token)
        <5>1. sent + k \in Nat
          BY <3>2
        <5>2. f[k - 1] \in Seq(Token)
          BY <2>3, <3>4
        <5> QED
          BY <1>1, <5>1, <5>2
      <4>2. (w \o f[k - 1]) \o Written(sent + k) = w \o (f[k - 1] \o Written(sent + k))
        <5>1. w \in Seq(Token)
          BY <1>4
        <5> QED
          BY ONLY <1>0, <4>1, <5>1
      <4> QED
        BY <3>7, <4>2
    <3>9. sent + (k - 1) \in Nat /\ (sent + (k - 1)) + 1 = sent + k
      BY <3>4
    <3> QED
      BY <3>2, <3>6, <3>8, <3>9, WireFrame
  <2>5. n \in 1 .. n
    BY <1>6
  <2>6. WireOK(w \o f[n], sent + n)
    BY <2>4, <2>5
  <2>7. Len(w \o f[n]) >= Len(w) /\ \A p \in 1 .. Len(w) : (w \o f[n])[p] = w[p]
    <3>1. f[n] \in Seq(Token) /\ Len(f[n]) \in Nat
      BY <2>3, <2>5, LenProperties
    <3> QED
      BY <1>4, <3>1, ConcatProperties
  <2> QED
    BY <2>3, <2>6, <2>7 DEF parts
<1> QED
  BY <1>5, <1>6

-----------------------------------------------------------------------------
(* What the browser holds: text was made of the tokens of the wire after   *)
(* base, at the places from, up to the t-th.  Nothing of them is missing   *)
(* but ends of lines, and those that end a CR LF are if no read tore one.  *)
Held(text, from, base, w, t, torn) ==
  /\ base \in 0 .. t /\ t \in Nat /\ t <= Len(w)
  /\ text \in Seq(Token)
  /\ from \in [1 .. Len(text) -> base + 1 .. t]
  /\ \A k, l \in 1 .. Len(text) : k < l => from[k] < from[l]
  /\ \A k \in 1 .. Len(text) : text[k] = IF w[from[k]] = CR THEN LF ELSE w[from[k]]
  /\ \A p \in base + 1 .. t : w[p] # LF => \E k \in 1 .. Len(text) : from[k] = p
  /\ torn = 0 => \A k \in 1 .. Len(text) : w[from[k]] # LF

LEMMA ReadHolds ==
  ASSUME NEW w, NEW sent, WireOK(w, sent), NEW t \in Nat, NEW n \in Nat \ {0}, t + n <= Len(w),
         NEW text, NEW from, NEW base, NEW torn, Held(text, from, base, w, t, torn),
         torn = 0 /\ t > 0 => w[t] # CR
  PROVE  \E more : Held(text \o Normalised(SubSeq(w, t + 1, t + n)), more, base, w, t + n, torn)
<1> DEFINE chunk == SubSeq(w, t + 1, t + n)
           Kept == {k \in DOMAIN chunk : ~(chunk[k] = LF /\ k > 1 /\ chunk[k - 1] = CR)}
           kept == InOrder(Kept, <)
           norm == [k \in DOMAIN kept |-> IF chunk[kept[k]] = CR THEN LF ELSE chunk[kept[k]]]
           B == Len(text)
           K == Len(kept)
           more == [k \in 1 .. B + K |-> IF k <= B THEN from[k] ELSE t + kept[k - B]]
<1>1. w \in Seq(Token) /\ Len(w) \in Nat /\ \A p \in 1 .. Len(w) : EndsAt(w, p) /\ w[p] \in Token
  BY LenProperties, ElementOfSeq DEF WireOK
<1>2. text \in Seq(Token) /\ B \in Nat /\ base \in 0 .. t
  BY LenProperties DEF Held
<1>3. chunk \in Seq(Token) /\ Len(chunk) = n /\ DOMAIN chunk = 1 .. n
      /\ \A k \in 1 .. n : chunk[k] = w[t + k]
  <2>1. \A p \in t + 1 .. t + n : w[p] \in Token
    BY <1>1
  <2>2. /\ chunk \in Seq(Token)
        /\ Len(chunk) = IF t + 1 <= t + n THEN (t + n) - (t + 1) + 1 ELSE 0
        /\ \A k \in 1 .. (t + n) - (t + 1) + 1 : chunk[k] = w[(t + 1) + k - 1]
    BY <2>1, SubSeqProperties
  <2> HIDE DEF chunk
  <2>3. Len(chunk) = n
    BY <2>2
  <2>4. DOMAIN chunk = 1 .. n
    BY <2>2, <2>3, LenProperties
  <2>5. \A k \in 1 .. n : chunk[k] = w[t + k]
    <3> SUFFICES ASSUME NEW k \in 1 .. n PROVE chunk[k] = w[t + k]
      OBVIOUS
    <3>1. k \in 1 .. (t + n) - (t + 1) + 1 /\ (t + 1) + k - 1 = t + k
      OBVIOUS
    <3> QED
      BY <2>2, <3>1
  <2> QED
    BY <2>2, <2>3, <2>4, <2>5
<1>4. Normalised(chunk) = norm
  BY DEF Normalised
<1> HIDE DEF chunk
<1>5. Kept \in SUBSET (1 .. n)
  BY <1>3
<1>6. \A k \in 1 .. n : k \notin Kept <=> w[t + k] = LF /\ k > 1 /\ w[t + (k - 1)] = CR
  <2> SUFFICES ASSUME NEW k \in 1 .. n
               PROVE  k \notin Kept <=> w[t + k] = LF /\ k > 1 /\ w[t + (k - 1)] = CR
    OBVIOUS
  <2>1. k > 1 => k - 1 \in 1 .. n
    OBVIOUS
  <2> QED
    BY <1>3, <2>1
<1> HIDE DEF Kept
<1>7. /\ K \in Nat /\ DOMAIN kept = 1 .. K
      /\ \A x \in Kept : \E k \in 1 .. K : kept[k] = x
      /\ \A k \in 1 .. K : kept[k] \in Kept
      /\ \A k, l \in 1 .. K : k < l => kept[k] < kept[l]
  BY <1>5, NumbersInOrder
<1> HIDE DEF kept
<1>8. \A k \in 1 .. K : kept[k] \in 1 .. n /\ w[t + kept[k]] = chunk[kept[k]]
  BY <1>3, <1>5, <1>7
<1>9. norm \in Seq(Token) /\ Len(norm) = K
      /\ \A k \in 1 .. K : norm[k] = IF w[t + kept[k]] = CR THEN LF ELSE w[t + kept[k]]
  <2>1. norm = [k \in 1 .. K |-> IF chunk[kept[k]] = CR THEN LF ELSE chunk[kept[k]]]
    BY <1>7
  <2>2. \A k \in 1 .. K : chunk[kept[k]] \in Token
    BY <1>3, <1>8, ElementOfSeq
  <2>3. norm \in [1 .. K -> Token]
    BY <2>1, <2>2, Tokens
  <2> HIDE DEF norm, K
  <2>4. norm \in Seq(Token)
    BY <1>7, <2>3, SeqDef
  <2>5. Len(norm) = K
    BY <1>7, <2>3, <2>4, LenProperties
  <2> QED
    BY <1>8, <2>1, <2>4, <2>5
<1> DEFINE all == text \o norm
<1> HIDE DEF norm
<1>10. /\ all \in Seq(Token) /\ Len(all) = B + K
       /\ \A k \in 1 .. B : all[k] = text[k]
       /\ \A k \in 1 .. K : all[B + k] = norm[k]
  <2>1. /\ text \o norm \in Seq(Token) /\ Len(text \o norm) = Len(text) + Len(norm)
        /\ Len(text) \in Nat /\ Len(norm) \in Nat
        /\ \A p \in 1 .. Len(text) : (text \o norm)[p] = text[p]
        /\ \A p \in 1 .. Len(norm) : (text \o norm)[Len(text) + p] = norm[p]
    <3>1. text \in Seq(Token) /\ norm \in Seq(Token)
      BY <1>2, <1>9
    <3> QED
      BY ONLY <3>1, Joined
  <2> QED
    BY <1>9, <2>1
<1> HIDE DEF all
<1>11. \A k \in 1 .. B + K : \/ k \in 1 .. B /\ more[k] = from[k]
                             \/ k - B \in 1 .. K /\ k = B + (k - B) /\ more[k] = t + kept[k - B]
  BY <1>2, <1>7
<1>12. more \in [1 .. B + K -> base + 1 .. t + n]
  <2> SUFFICES ASSUME NEW k \in 1 .. B + K PROVE more[k] \in base + 1 .. t + n
    OBVIOUS
  <2>1. CASE k \in 1 .. B /\ more[k] = from[k]
    <3>1. from[k] \in base + 1 .. t
      BY <2>1 DEF Held
    <3> QED
      BY <1>2, <2>1, <3>1
  <2>2. CASE k - B \in 1 .. K /\ more[k] = t + kept[k - B]
    <3>1. kept[k - B] \in 1 .. n
      BY <1>8, <2>2
    <3> HIDE DEF B, K, more
    <3> QED
      BY <1>2, <2>2, <3>1
  <2> QED
    BY <1>11, <2>1, <2>2
<1>13. \A k, l \in 1 .. B + K : k < l => more[k] < more[l]
  <2> SUFFICES ASSUME NEW k \in 1 .. B + K, NEW l \in 1 .. B + K, k < l PROVE more[k] < more[l]
    OBVIOUS
  <2>1. CASE l \in 1 .. B /\ more[l] = from[l]
    <3>1. k \in 1 .. B /\ more[k] = from[k]
      BY <1>2, <2>1
    <3> QED
      BY <2>1, <3>1 DEF Held
  <2>2. CASE l - B \in 1 .. K /\ more[l] = t + kept[l - B]
    <3>1. kept[l - B] \in 1 .. n
      BY <1>8, <2>2
    <3>2. CASE k \in 1 .. B /\ more[k] = from[k]
      <4>1. from[k] \in base + 1 .. t
        BY <3>2 DEF Held
      <4> HIDE DEF B, K, more
      <4> QED
        BY <1>2, <2>2, <3>1, <3>2, <4>1
    <3>3. CASE k - B \in 1 .. K /\ more[k] = t + kept[k - B]
      <4>1. k - B < l - B
        BY <1>2
      <4>2. kept[k - B] < kept[l - B] /\ kept[k - B] \in 1 .. n
        BY <1>7, <1>8, <2>2, <3>3, <4>1
      <4> HIDE DEF B, K, more
      <4> QED
        BY <2>2, <3>1, <3>3, <4>2
    <3> QED
      BY <1>11, <3>2, <3>3
  <2> QED
    BY <1>11, <2>1, <2>2
<1>14. \A k \in 1 .. B + K : all[k] = IF w[more[k]] = CR THEN LF ELSE w[more[k]]
  <2> SUFFICES ASSUME NEW k \in 1 .. B + K
               PROVE  all[k] = IF w[more[k]] = CR THEN LF ELSE w[more[k]]
    OBVIOUS
  <2>1. CASE k \in 1 .. B /\ more[k] = from[k]
    BY <1>10, <2>1 DEF Held
  <2>2. CASE k - B \in 1 .. K /\ k = B + (k - B) /\ more[k] = t + kept[k - B]
    <3>1. all[k] = norm[k - B]
      BY <1>10, <2>2
    <3> HIDE DEF B, K, more
    <3> QED
      BY <1>9, <2>2, <3>1
  <2> QED
    BY <1>11, <2>1, <2>2
<1>15. \A p \in base + 1 .. t + n : w[p] # LF => \E k \in 1 .. B + K : more[k] = p
  <2> SUFFICES ASSUME NEW p \in base + 1 .. t + n, w[p] # LF
               PROVE  \E k \in 1 .. B + K : more[k] = p
    OBVIOUS
  <2>1. CASE p <= t
    <3>1. p \in base + 1 .. t
      BY <1>2, <2>1
    <3>2. PICK k \in 1 .. Len(text) : from[k] = p
      BY <3>1 DEF Held
    <3>3. k \in 1 .. B + K /\ more[k] = p
      BY <1>2, <1>7, <3>2
    <3> QED
      BY <3>3
  <2>2. CASE ~(p <= t)
    <3>1. p - t \in 1 .. n /\ t + (p - t) = p
      BY <1>2, <2>2
    <3>2. p - t \in Kept
      BY <1>6, <3>1
    <3>3. PICK k \in 1 .. K : kept[k] = p - t
      BY <1>7, <3>2
    <3>4. B + k \in 1 .. B + K /\ ~(B + k <= B) /\ (B + k) - B = k
      BY <1>2, <1>7
    <3>5. more[B + k] = p
      BY <3>1, <3>3, <3>4
    <3> QED
      BY <3>4, <3>5
  <2> QED
    BY <2>1, <2>2
<1>16. torn = 0 => \A k \in 1 .. B + K : w[more[k]] # LF
  <2> SUFFICES ASSUME torn = 0, NEW k \in 1 .. B + K, w[more[k]] = LF PROVE FALSE
    OBVIOUS
  <2>1. CASE k \in 1 .. B /\ more[k] = from[k]
    BY <2>1 DEF Held
  <2>2. CASE k - B \in 1 .. K /\ more[k] = t + kept[k - B]
    <3> DEFINE x == kept[k - B]
    <3>1. x \in 1 .. n /\ x \in Kept /\ w[t + x] = LF
      BY <1>7, <1>8, <2>2
    <3> HIDE DEF x
    <3>2. t + x \in 1 .. Len(w) /\ (t + x) - 1 = t + (x - 1)
      BY <1>1, <3>1
    <3>3. w[t + (x - 1)] = CR
      BY <1>1, <3>1, <3>2 DEF EndsAt
    <3>4. x = 1
      BY <1>6, <3>1, <3>3
    <3>5. t > 0
      BY <1>1, <3>1, <3>2, <3>4 DEF EndsAt
    <3> QED
      BY <3>3, <3>4, <3>5
  <2> QED
    BY <1>11, <2>1, <2>2
<1> HIDE DEF more, B, K
<1>17. Held(all, more, base, w, t + n, torn)
  <2>1. base \in 0 .. t + n /\ t + n \in Nat
    BY <1>2
  <2> QED
    BY <1>10, <1>12, <1>13, <1>14, <1>15, <1>16, <2>1 DEF Held
<1> QED
  BY <1>4, <1>17 DEF all, norm, kept, Kept, chunk

-----------------------------------------------------------------------------
(* The frames of a text: where it is cut *)

Start(br, k) == IF k = 1 THEN 1 ELSE br[k - 1] + 2

(* The cuts are at ends of lines that follow each other, and the first two *)
(* of a run are one of them.                                               *)
Cuts(text, br) ==
  /\ br \in [1 .. Len(br) -> 1 .. Len(text) - 1] /\ Len(br) \in Nat
  /\ \A k, l \in 1 .. Len(br) : k < l => br[k] < br[l]
  /\ \A k \in 1 .. Len(br) : text[br[k]] = LF /\ text[br[k] + 1] = LF
  /\ \A p \in 1 .. Len(text) - 1 :
       text[p] = LF /\ text[p + 1] = LF /\ (p = 1 \/ text[p - 1] # LF)
         => \E k \in 1 .. Len(br) : br[k] = p

LEMMA SplitCuts ==
  ASSUME NEW text \in Seq(Token)
  PROVE  \E br : /\ Cuts(text, br)
                 /\ Split(text).frames =
                      [k \in 1 .. Len(br) |-> SubSeq(text, Start(br, k), br[k] - 1)]
                 /\ Split(text).rest = SubSeq(text, Start(br, Len(br) + 1), Len(text))
<1> DEFINE inRun(i) == i - Max({0} \cup {j \in 1 .. i - 1 : text[j] # LF})
           S == {i \in 1 .. Len(text) - 1 : /\ text[i] = LF /\ text[i + 1] = LF
                                            /\ inRun(i) % 2 = 1}
           br == InOrder(S, <)
           start(k) == IF k = 1 THEN 1 ELSE br[k - 1] + 2
<1>1. Len(text) \in Nat
  BY LenProperties
<1>2. Split(text) = [frames |-> [k \in DOMAIN br |-> SubSeq(text, start(k), br[k] - 1)],
                     rest |-> SubSeq(text, start(Len(br) + 1), Len(text))]
  BY DEF Split
<1>3. S \in SUBSET (1 .. Len(text)) /\ S \in SUBSET (1 .. Len(text) - 1)
  BY <1>1
<1>4. \A i \in S : text[i] = LF /\ text[i + 1] = LF
  OBVIOUS
<1>5. ASSUME NEW p \in 1 .. Len(text) - 1, text[p] = LF, text[p + 1] = LF, p = 1 \/ text[p - 1] # LF
      PROVE  p \in S
  <2> DEFINE U == {0} \cup {j \in 1 .. p - 1 : text[j] # LF}
  <2>1. U \in SUBSET Nat /\ p - 1 \in U /\ \A m \in U : m <= p - 1
    BY <1>1, <1>5
  <2> HIDE DEF U
  <2>2. Max(U) = p - 1
    BY <2>1, GreatestIs
  <2>3. inRun(p) = 1
    BY <1>1, <2>2 DEF U
  <2> HIDE DEF inRun
  <2> QED
    BY <1>5, <2>3
<1> HIDE DEF S
<1>6. /\ Len(br) \in Nat /\ DOMAIN br = 1 .. Len(br)
      /\ \A x \in S : \E k \in 1 .. Len(br) : br[k] = x
      /\ \A k \in 1 .. Len(br) : br[k] \in S
      /\ \A k, l \in 1 .. Len(br) : k < l => br[k] < br[l]
      /\ br \in Seq(S)
  BY <1>1, <1>3, NumbersInOrder
<1> HIDE DEF br
<1>7. br \in [1 .. Len(br) -> 1 .. Len(text) - 1]
  <2>1. br \in [1 .. Len(br) -> S]
    BY <1>6, LenProperties
  <2> QED
    BY <1>3, <2>1
<1>8. Cuts(text, br)
  BY <1>4, <1>5, <1>6, <1>7 DEF Cuts
<1>9. /\ Split(text).frames = [k \in 1 .. Len(br) |-> SubSeq(text, Start(br, k), br[k] - 1)]
      /\ Split(text).rest = SubSeq(text, Start(br, Len(br) + 1), Len(text))
  <2>1. \A k : start(k) = Start(br, k)
    BY DEF Start
  <2>3. Split(text).rest = SubSeq(text, start(Len(br) + 1), Len(text))
    <3>1. \A a, b : [frames |-> a, rest |-> b].rest = b
      OBVIOUS
    <3> HIDE DEF start
    <3> QED
      BY <1>2, <3>1, Zenon
  <2> HIDE DEF start
  <2>2. Split(text).frames = [k \in 1 .. Len(br) |-> SubSeq(text, start(k), br[k] - 1)]
    BY <1>2, <1>6
  <2> QED
    BY <2>1, <2>2, <2>3
<1> QED
  BY <1>8, <1>9

(* A data line of the text is one of the wire, and so is an event line.    *)
LEMMA HeldLine ==
  ASSUME NEW w, NEW sent, WireOK(w, sent), NEW t,
         NEW text, NEW from, NEW base, NEW torn, Held(text, from, base, w, t, torn),
         NEW k \in 1 .. Len(text), IsData(text[k]) \/ IsEvent(text[k])
  PROVE  from[k] \in base + 1 .. t /\ from[k] \in 1 .. Len(w) /\ w[from[k]] = text[k]
<1>1. from[k] \in base + 1 .. t /\ from[k] \in 1 .. Len(w)
  <2>1. Len(w) \in Nat
    BY LenProperties DEF WireOK
  <2> QED
    BY <2>1 DEF Held
<1>2. text[k] # LF
  BY Tokens
<1> QED
  BY <1>1, <1>2 DEF Held

LEMMA HeldRange ==
  ASSUME NEW w, NEW t, NEW text, NEW from, NEW base, NEW torn, Held(text, from, base, w, t, torn)
  PROVE  /\ base \in Nat /\ t \in Nat /\ Len(text) \in Nat
         /\ \A k \in 1 .. Len(text) : from[k] \in base + 1 .. t
         /\ \A k, l \in 1 .. Len(text) : k < l => from[k] < from[l]
<1>1. base \in Nat /\ t \in Nat
  BY DEF Held
<1>2. Len(text) \in Nat
  BY LenProperties DEF Held
<1>3. \A k \in 1 .. Len(text) : from[k] \in base + 1 .. t
  BY DEF Held
<1>4. \A k, l \in 1 .. Len(text) : k < l => from[k] < from[l]
  BY DEF Held
<1> QED
  BY ONLY <1>1, <1>2, <1>3, <1>4

(* Two ends of lines follow a data line, as soon as both have been read.   *)
LEMMA AfterData ==
  ASSUME NEW w, NEW sent, WireOK(w, sent), NEW t,
         NEW text, NEW from, NEW base, NEW torn, Held(text, from, base, w, t, torn),
         NEW d \in 1 .. Len(text), IsData(text[d]), from[d] + 3 <= t
  PROVE  d + 2 \in 1 .. Len(text) /\ text[d + 1] = LF /\ text[d + 2] = LF
<1> DEFINE p == from[d]
<1>1. p \in base + 1 .. t /\ p \in 1 .. Len(w) /\ IsData(w[p])
  BY HeldLine
<1>2. /\ base \in Nat /\ t \in Nat /\ Len(text) \in Nat
      /\ \A k \in 1 .. Len(text) : from[k] \in base + 1 .. t
      /\ \A k, l \in 1 .. Len(text) : k < l => from[k] < from[l]
  BY HeldRange
<1>3. w[p + 1] = CR /\ w[p + 2] = LF /\ w[p + 3] = CR
  BY <1>1 DEF WireOK, DataAt
<1> HIDE DEF p
<1>4. p + 1 \in base + 1 .. t /\ p + 3 \in base + 1 .. t
  BY <1>1, <1>2 DEF p
<1>5. PICK k \in 1 .. Len(text) : from[k] = p + 1
  BY <1>3, <1>4, Tokens DEF Held
<1>6. PICK l \in 1 .. Len(text) : from[l] = p + 3
  BY <1>3, <1>4, Tokens DEF Held
<1>7. p \in Nat /\ from[d] = p
  BY <1>1, <1>2 DEF p
<1>8. d < k /\ k < l
  BY <1>2, <1>5, <1>6, <1>7
<1>9. d + 1 \in 1 .. Len(text) /\ d + 2 \in 1 .. Len(text) /\ d + 1 <= k /\ d + 2 <= l
  BY <1>2, <1>8
<1>10. from[d] < from[d + 1] /\ from[d + 1] < from[d + 2]
  BY <1>2, <1>9
<1>11. from[d + 1] <= from[k] /\ from[d + 2] <= from[l]
  <2>1. d + 1 = k \/ d + 1 < k
    BY <1>9
  <2>2. d + 2 = l \/ d + 2 < l
    BY <1>9
  <2>3. from[k] \in Nat /\ from[l] \in Nat
    BY <1>5, <1>6, <1>7
  <2>4. from[d + 1] <= from[k]
    <3>1. d + 1 < k => from[d + 1] < from[k] /\ from[d + 1] \in base + 1 .. t
      BY <1>2, <1>9
    <3> QED
      BY ONLY <1>2, <2>1, <2>3, <3>1
  <2>5. from[d + 2] <= from[l]
    <3>1. d + 2 < l => from[d + 2] < from[l] /\ from[d + 2] \in base + 1 .. t
      BY <1>2, <1>9
    <3> QED
      BY ONLY <1>2, <2>2, <2>3, <3>1
  <2> QED
    BY <2>4, <2>5
<1>12. from[d + 1] \in Nat /\ from[d + 2] \in Nat
  BY <1>2, <1>9
<1>13. from[d + 1] = p + 1 /\ from[d + 2] \in {p + 2, p + 3}
  <2> DEFINE x == from[d + 1]
             y == from[d + 2]
  <2>1. p \in Nat /\ x \in Nat /\ y \in Nat
    BY <1>7, <1>12
  <2>2. p < x /\ x < y /\ x <= p + 1 /\ y <= p + 3
    BY <1>5, <1>6, <1>7, <1>10, <1>11
  <2> HIDE DEF x, y
  <2>3. x = p + 1 /\ y \in {p + 2, p + 3}
    BY ONLY <2>1, <2>2
  <2> QED
    BY <2>3 DEF x, y
<1>14. \A j \in 1 .. Len(text) : text[j] = IF w[from[j]] = CR THEN LF ELSE w[from[j]]
  BY DEF Held
<1>15. text[d + 1] = LF /\ text[d + 2] = LF
  <2>1. w[from[d + 1]] = CR
    BY <1>3, <1>13
  <2>2. w[from[d + 2]] = CR \/ w[from[d + 2]] = LF
    BY <1>3, <1>13
  <2> QED
    BY ONLY <1>9, <1>14, <2>1, <2>2
<1> QED
  BY <1>9, <1>15

(* And its event line is before it, with one or two ends of lines between  *)
(* them, unless it is gone.                                                *)
EventBefore(text, from, d, torn) ==
  \E e \in 1 .. Len(text) :
    /\ text[e] = <<"event", text[d][2]>> /\ from[e] = from[d] - 3
    /\ e < d
    /\ \A k \in e + 1 .. d - 1 : text[k] = LF
    /\ torn = 0 => d = e + 2
    /\ d = e + 2 \/ d = e + 3

LEMMA BeforeData ==
  ASSUME NEW w, NEW sent, WireOK(w, sent), NEW t,
         NEW text, NEW from, NEW base, NEW torn, Held(text, from, base, w, t, torn),
         NEW d \in 1 .. Len(text), IsData(text[d]), base + 3 < from[d]
  PROVE  EventBefore(text, from, d, torn)
<1> DEFINE p == from[d]
<1>1. p \in base + 1 .. t /\ p \in 1 .. Len(w) /\ IsData(w[p]) /\ w[p] = text[d]
  BY HeldLine
<1>2. /\ base \in Nat /\ t \in Nat /\ Len(text) \in Nat
      /\ \A k \in 1 .. Len(text) : from[k] \in base + 1 .. t
      /\ \A k, l \in 1 .. Len(text) : k < l => from[k] < from[l]
  BY HeldRange
<1>3. /\ w[p - 3] = <<"event", w[p][2]>> /\ w[p - 2] = CR /\ w[p - 1] = LF
  BY <1>1 DEF WireOK, DataAt
<1> HIDE DEF p
<1>4. p - 3 \in base + 1 .. t /\ p - 2 \in base + 1 .. t /\ p \in Nat /\ from[d] = p
  <2>1. base + 3 < p /\ from[d] = p
    BY DEF p
  <2>2. p \in base + 1 .. t /\ base \in Nat /\ t \in Nat
    BY <1>1, <1>2
  <2> QED
    BY ONLY <2>1, <2>2
<1>5. IsEvent(w[p - 3])
  BY <1>3, Tokens
<1>6. w[p - 3] # LF /\ w[p - 3] # CR /\ w[p - 2] # LF
  BY <1>3, <1>5, Tokens
<1>7. PICK e \in 1 .. Len(text) : from[e] = p - 3
  BY <1>4, <1>6 DEF Held
<1>8. PICK f \in 1 .. Len(text) : from[f] = p - 2
  BY <1>4, <1>6 DEF Held
<1>9. text[e] = <<"event", text[d][2]>>
  BY <1>1, <1>3, <1>6, <1>7 DEF Held
<1>10. e < f /\ f < d
  BY <1>2, <1>4, <1>7, <1>8
<1>11. \A k \in 1 .. Len(text) : /\ e < k => p - 3 < from[k]
                                 /\ k < d => from[k] < p
                                 /\ f < k => p - 2 < from[k]
                                 /\ k < f => from[k] < p - 2
                                 /\ from[k] \in Nat
  BY <1>2, <1>4, <1>7, <1>8
<1>12. f = e + 1
  <2> SUFFICES ASSUME e + 1 < f PROVE FALSE
    BY <1>10
  <2>1. e + 1 \in 1 .. Len(text) /\ e < e + 1
    BY <1>2, <1>10
  <2> QED
    BY <1>4, <1>11, <2>1
<1>13. \A k \in 1 .. Len(text) : f < k /\ k < d => from[k] = p - 1
  BY <1>4, <1>11
<1>14. d <= f + 2
  <2> SUFFICES ASSUME f + 2 < d PROVE FALSE
    BY <1>10
  <2>1. f + 1 \in 1 .. Len(text) /\ f + 2 \in 1 .. Len(text)
    BY <1>2, <1>10
  <2>2. from[f + 1] = p - 1 /\ from[f + 2] = p - 1
    BY <1>13, <2>1
  <2>3. from[f + 1] < from[f + 2]
    BY <1>2, <2>1
  <2> QED
    BY <1>4, <2>2, <2>3
<1>15. \A k \in e + 1 .. d - 1 : text[k] = LF
  <2> SUFFICES ASSUME NEW k \in e + 1 .. d - 1 PROVE text[k] = LF
    OBVIOUS
  <2>1. k \in 1 .. Len(text) /\ (k = f \/ (f < k /\ k < d))
    BY <1>2, <1>12
  <2>2. from[k] = p - 2 \/ from[k] = p - 1
    BY <1>8, <1>13, <2>1
  <2> QED
    BY <1>3, <2>1, <2>2, Tokens DEF Held
<1>16. torn = 0 => d = e + 2
  <2> SUFFICES ASSUME torn = 0, d # e + 2 PROVE FALSE
    OBVIOUS
  <2>1. f + 1 \in 1 .. Len(text) /\ f + 1 < d /\ f < f + 1
    BY <1>2, <1>10, <1>12
  <2>2. from[f + 1] = p - 1
    BY <1>13, <2>1
  <2>3. w[p - 1] # LF
    BY <2>1, <2>2 DEF Held
  <2> QED
    BY <1>3, <2>3
<1>17. d = e + 2 \/ d = e + 3
  BY <1>10, <1>12, <1>14
<1>18. e < d /\ from[e] = from[d] - 3
  BY <1>2, <1>4, <1>7, <1>10
<1> QED
  BY ONLY <1>9, <1>15, <1>16, <1>17, <1>18 DEF EventBefore

-----------------------------------------------------------------------------
(* The calls that the frames of a text make *)

FrameOf(text, br, k) == SubSeq(text, Start(br, k), br[k] - 1)

LEMMA Frames ==
  ASSUME NEW text, Len(text) \in Nat, NEW br, Cuts(text, br), NEW k \in 1 .. Len(br)
  PROVE  /\ Start(br, k) \in 1 .. Len(text) + 1 /\ br[k] \in 1 .. Len(text) - 1
         /\ \A l \in 1 .. Len(br) : br[l] < br[k] => br[l] + 2 <= Start(br, k)
         /\ \A l \in 1 .. Len(br) : l < k => br[l] < Start(br, k)
         /\ k > 1 => Start(br, k) = br[k - 1] + 2 /\ br[k - 1] < br[k] /\ k - 1 \in 1 .. Len(br)
         /\ k = 1 => Start(br, k) = 1
<1>1. /\ \A l \in 1 .. Len(br) : br[l] \in 1 .. Len(text) - 1
      /\ Len(br) \in Nat
      /\ \A l, n \in 1 .. Len(br) : l < n => br[l] < br[n]
  BY DEF Cuts
<1>2. CASE k = 1
  <2>1. \A l \in 1 .. Len(br) : ~(br[l] < br[k])
    BY <1>1, <1>2
  <2> QED
    BY <1>1, <1>2, <2>1 DEF Start
<1>3. CASE k # 1
  <2>1. k - 1 \in 1 .. Len(br) /\ k - 1 < k /\ Start(br, k) = br[k - 1] + 2
    BY <1>1, <1>3 DEF Start
  <2>2. br[k - 1] \in 1 .. Len(text) - 1 /\ br[k - 1] < br[k] /\ br[k] \in 1 .. Len(text) - 1
    BY <1>1, <2>1
  <2>3. \A l \in 1 .. Len(br) : l < k => br[l] <= br[k - 1]
    BY <1>1, <2>1
  <2>4. \A l \in 1 .. Len(br) : br[l] < br[k] => l < k
    BY <1>1
  <2> QED
    BY <1>1, <1>3, <2>1, <2>2, <2>3, <2>4
<1> QED
  BY <1>2, <1>3

Within(frame, text, s, n) ==
  /\ frame \in Seq(Token) /\ Len(frame) \in Nat /\ DOMAIN frame = 1 .. Len(frame)
  /\ \A x \in 1 .. Len(frame) : /\ s + x - 1 \in s .. n
                                /\ s + x - 1 \in 1 .. Len(text)
                                /\ frame[x] = text[s + x - 1]
  /\ \A d \in s .. n : d - s + 1 \in 1 .. Len(frame) /\ frame[d - s + 1] = text[d]

LEMMA InFrame ==
  ASSUME NEW text \in Seq(Token), NEW br, Cuts(text, br), NEW k \in 1 .. Len(br)
  PROVE  Within(FrameOf(text, br, k), text, Start(br, k), br[k] - 1)
<1> DEFINE s == Start(br, k)
           n == br[k] - 1
           frame == SubSeq(text, s, n)
<1>1. Len(text) \in Nat /\ \A d \in 1 .. Len(text) : text[d] \in Token
  BY LenProperties, ElementOfSeq
<1>2. s \in 1 .. Len(text) + 1 /\ n + 1 \in 1 .. Len(text) - 1 /\ n \in Nat
  BY <1>1, Frames
<1> HIDE DEF s, n
<1>3. /\ frame \in Seq(Token)
      /\ Len(frame) = IF s <= n THEN n - s + 1 ELSE 0
      /\ \A x \in 1 .. n - s + 1 : frame[x] = text[s + x - 1]
  <2>1. \A d \in s .. n : text[d] \in Token
    BY <1>1, <1>2
  <2>2. s \in Int /\ n \in Int
    BY <1>1, <1>2
  <2> QED
    BY <2>1, <2>2, SubSeqProperties
<1> HIDE DEF frame
<1>4. \A x \in 1 .. Len(frame) : x \in 1 .. n - s + 1 /\ s + x - 1 \in s .. n /\ s + x - 1 \in 1 .. Len(text)
  <2> SUFFICES ASSUME NEW x \in 1 .. Len(frame)
               PROVE  x \in 1 .. n - s + 1 /\ s + x - 1 \in s .. n /\ s + x - 1 \in 1 .. Len(text)
    OBVIOUS
  <2>1. s <= n /\ x \in 1 .. n - s + 1
    BY <1>2, <1>3
  <2>2. s \in Nat /\ n \in Nat /\ s >= 1 /\ n <= Len(text) /\ Len(text) \in Nat
    BY <1>1, <1>2
  <2> QED
    BY ONLY <2>1, <2>2
<1>5. \A d \in s .. n : d - s + 1 \in 1 .. Len(frame) /\ frame[d - s + 1] = text[d]
  <2> SUFFICES ASSUME NEW d \in s .. n
               PROVE  d - s + 1 \in 1 .. Len(frame) /\ frame[d - s + 1] = text[d]
    OBVIOUS
  <2>1. d - s + 1 \in 1 .. n - s + 1 /\ s + (d - s + 1) - 1 = d /\ s <= n
    BY <1>1, <1>2
  <2> QED
    BY <1>3, <2>1
<1>6. Len(frame) \in Nat /\ DOMAIN frame = 1 .. Len(frame)
  BY <1>3, LenProperties
<1> QED
  <2>1. Within(frame, text, s, n)
    BY ONLY <1>3, <1>4, <1>5, <1>6 DEF Within
  <2> QED
    BY <2>1 DEF frame, s, n, FrameOf

(* Another line of the wire is not among the lines that follow a data line. *)
LEMMA PastData ==
  ASSUME NEW w, NEW sent, WireOK(w, sent), NEW p \in 1 .. Len(w), NEW q \in 1 .. Len(w),
         IsData(w[p]), p < q, IsData(w[q]) \/ IsEvent(w[q])
  PROVE  p + 4 < q
<1>1. DataAt(w, p) /\ Len(w) \in Nat
  BY LenProperties DEF WireOK
<1>2. w[p + 1] = CR /\ w[p + 2] = LF /\ w[p + 3] = CR /\ w[p + 4] = LF
  BY <1>1 DEF DataAt
<1>3. q # p + 1 /\ q # p + 2 /\ q # p + 3 /\ q # p + 4
  BY <1>2, Tokens
<1> QED
  BY <1>1, <1>3

(* A frame calls a handler with the data of its own event, or none.        *)
LEMMA Dispatch ==
  ASSUME NEW w, NEW sent, WireOK(w, sent), NEW t,
         NEW text, NEW from, NEW base, NEW torn, Held(text, from, base, w, t, torn),
         NEW br, Cuts(text, br), NEW k \in 1 .. Len(br)
  PROVE  LET frame == FrameOf(text, br, k) IN
         \/ Dispatched(frame) = <<>>
         \/ \E d \in Start(br, k) .. br[k] - 1 :
              /\ d \in 1 .. Len(text) /\ IsData(text[d])
              /\ Dispatched(frame) = <<<<text[d][2], text[d][2]>>>>
<1> DEFINE s == Start(br, k)
           frame == FrameOf(text, br, k)
           line(field) == {x \in DOMAIN frame : frame[x][1] = field}
           data == line("data")
           event == line("event")
<1>1. text \in Seq(Token) /\ Len(text) \in Nat
  BY LenProperties DEF Held
<1>2. /\ frame \in Seq(Token) /\ Len(frame) \in Nat /\ DOMAIN frame = 1 .. Len(frame)
      /\ \A x \in 1 .. Len(frame) : /\ s + x - 1 \in s .. br[k] - 1
                                    /\ s + x - 1 \in 1 .. Len(text)
                                    /\ frame[x] = text[s + x - 1]
      /\ \A d \in s .. br[k] - 1 : d - s + 1 \in 1 .. Len(frame) /\ frame[d - s + 1] = text[d]
  <2>1. Cuts(text, br) /\ k \in 1 .. Len(br)
    OBVIOUS
  <2>2. text \in Seq(Token)
    BY <1>1
  <2>3. Within(frame, text, s, br[k] - 1)
    BY ONLY <2>1, <2>2, InFrame
  <2> HIDE DEF frame, s
  <2> QED
    BY ONLY <2>3 DEF Within
<1>3. /\ s \in 1 .. Len(text) + 1 /\ br[k] \in 1 .. Len(text) - 1
      /\ \A l \in 1 .. Len(br) : br[l] < br[k] => br[l] + 2 <= s
  BY <1>1, Frames
<1>4. Dispatched(frame) = IF Cardinality(data) = 1 /\ event # {}
                          THEN <<<<frame[Max(event)][2], frame[Max(data)][2]>>>> ELSE <<>>
  BY DEF Dispatched
<1> HIDE DEF s, frame
<1>5. SUFFICES ASSUME Cardinality(data) = 1, event # {}
               PROVE  \E d \in s .. br[k] - 1 :
                        /\ d \in 1 .. Len(text) /\ IsData(text[d])
                        /\ Dispatched(frame) = <<<<text[d][2], text[d][2]>>>>
  BY <1>4 DEF s, frame
<1>6. data # {}
  <2>1. Cardinality({}) = 0
    BY FS_EmptySet
  <2> HIDE DEF data
  <2> QED
    BY <1>5, <2>1
<1>7. data \in SUBSET (0 .. Len(frame)) /\ event \in SUBSET (0 .. Len(frame))
  BY <1>2
<1>8. /\ Max(data) \in data
      /\ Max(event) \in event /\ \A m \in event : m <= Max(event)
  <2> HIDE DEF data, event
  <2> QED
    BY <1>2, <1>5, <1>6, <1>7, GreatestIn
<1> DEFINE xd == Max(data)
           xe == Max(event)
           d == s + xd - 1
           e == s + xe - 1
<1>9. xd \in 1 .. Len(frame) /\ IsData(frame[xd]) /\ xe \in 1 .. Len(frame) /\ IsEvent(frame[xe])
  BY <1>2, <1>8 DEF IsData, IsEvent
<1>10. \A x \in 1 .. Len(frame) : IsEvent(frame[x]) => x <= xe
  BY <1>2, <1>8 DEF IsEvent
<1>11. Dispatched(frame) = <<<<frame[xe][2], frame[xd][2]>>>>
  BY <1>4, <1>5
<1> HIDE DEF xd, xe, data, event
<1>12. /\ d \in s .. br[k] - 1 /\ d \in 1 .. Len(text) /\ IsData(text[d]) /\ frame[xd] = text[d]
       /\ e \in s .. br[k] - 1 /\ e \in 1 .. Len(text) /\ IsEvent(text[e]) /\ frame[xe] = text[e]
  BY <1>2, <1>9
<1>13. \A c \in s .. br[k] - 1 : IsEvent(text[c]) => c <= e
  <2> SUFFICES ASSUME NEW c \in s .. br[k] - 1, IsEvent(text[c]) PROVE c <= e
    OBVIOUS
  <2>1. c - s + 1 \in 1 .. Len(frame) /\ frame[c - s + 1] = text[c]
    BY <1>2
  <2>2. c - s + 1 <= xe
    BY <1>10, <2>1
  <2>3. s \in Nat /\ xe \in Nat /\ c \in Nat
    BY <1>2, <1>3, <1>9
  <2> QED
    BY ONLY <2>2, <2>3
<1> HIDE DEF d, e
<1> DEFINE p == from[d]
           q == from[e]
<1>14. /\ p \in base + 1 .. t /\ p \in 1 .. Len(w) /\ w[p] = text[d]
       /\ q \in base + 1 .. t /\ q \in 1 .. Len(w) /\ w[q] = text[e]
  BY <1>12, HeldLine
<1>15. t \in Nat /\ base \in Nat /\ \A c, f \in 1 .. Len(text) : c < f => from[c] < from[f]
  BY DEF Held
<1>16. d # e
  BY <1>12, <1>14, Tokens DEF Token, IsData, IsEvent
<1>17. e < d
  <2> SUFFICES ASSUME d < e PROVE FALSE
    BY <1>3, <1>12, <1>16
  <2>1. p < q
    BY <1>12, <1>15
  <2>2. p + 4 < q
    BY <1>12, <1>14, <2>1, PastData
  <2>3. from[d] + 3 <= t
    BY <1>14, <1>15, <2>2
  <2>4. d + 2 \in 1 .. Len(text) /\ text[d + 1] = LF /\ text[d + 2] = LF
    BY <1>12, <2>3, AfterData
  <2>5. d + 1 \in 1 .. Len(text) - 1 /\ (d + 1) - 1 = d /\ (d + 1) + 1 = d + 2
    BY <1>1, <1>12, <2>4
  <2>6. text[d] # LF
    BY <1>12, Tokens
  <2>7. PICK l \in 1 .. Len(br) : br[l] = d + 1
    BY <2>4, <2>5, <2>6 DEF Cuts
  <2>8. br[l] < br[k]
    BY <1>1, <1>3, <1>12, <2>7
  <2>9. br[l] + 2 <= s
    BY <1>3, <2>8
  <2> QED
    BY <1>1, <1>3, <1>12, <2>7, <2>9
<1>18. q < p
  BY <1>12, <1>15, <1>17
<1>19. base + 3 < from[d]
  <2>1. DataAt(w, p)
    BY <1>14 DEF WireOK
  <2>2. w[p - 2] = CR /\ w[p - 1] = LF
    BY <1>12, <1>14, <2>1 DEF DataAt
  <2>3. q # p - 1 /\ q # p - 2
    BY <1>12, <1>14, <2>2, Tokens
  <2> QED
    BY <1>14, <1>15, <1>18, <2>3
<1>20. PICK f \in 1 .. Len(text) : text[f] = <<"event", text[d][2]>> /\ from[f] = p - 3 /\ f < d
  <2>1. EventBefore(text, from, d, torn)
    <3>1. WireOK(w, sent) /\ Held(text, from, base, w, t, torn)
      OBVIOUS
    <3>2. d \in 1 .. Len(text) /\ IsData(text[d]) /\ base + 3 < from[d]
      BY <1>12, <1>19
    <3> QED
      BY ONLY <3>1, <3>2, BeforeData
  <2> QED
    BY <2>1 DEF EventBefore
<1>21. IsEvent(text[f])
  BY <1>20, Tokens
<1>22. q <= p - 3
  <2>1. DataAt(w, p)
    BY <1>14 DEF WireOK
  <2>2. w[p - 2] = CR /\ w[p - 1] = LF
    BY <1>12, <1>14, <2>1 DEF DataAt
  <2>3. q # p - 1 /\ q # p - 2
    BY <1>12, <1>14, <2>2, Tokens
  <2>4. q \in Nat /\ p \in Nat
    BY <1>14, <1>15
  <2> QED
    BY ONLY <1>18, <2>3, <2>4
<1>23. ~(f < e)
  BY <1>12, <1>14, <1>15, <1>20, <1>22
<1>24. f <= e
  <2> SUFFICES ASSUME e < f PROVE FALSE
    BY <1>12
  <2>1. f \in s .. br[k] - 1
    BY <1>1, <1>3, <1>12, <1>20
  <2>2. f <= e
    BY <1>13, <1>21, <2>1
  <2> QED
    BY <1>12, <2>2
<1>25. f = e
  BY <1>12, <1>23, <1>24
<1>26. frame[xe][2] = text[d][2] /\ frame[xd][2] = text[d][2]
  BY <1>12, <1>20, <1>25
<1> QED
  BY <1>11, <1>12, <1>26

(* When no read tears an end of line, a frame that is complete is called.  *)
LEMMA DispatchWhole ==
  ASSUME NEW w, NEW sent, WireOK(w, sent), NEW t,
         NEW text, NEW from, NEW base, NEW torn, Held(text, from, base, w, t, torn),
         torn = 0, NEW br, Cuts(text, br),
         NEW d \in 1 .. Len(text), IsData(text[d]), base + 3 < from[d], from[d] + 3 <= t
  PROVE  \E k \in 1 .. Len(br) :
           /\ br[k] = d + 1
           /\ Dispatched(FrameOf(text, br, k)) = <<<<text[d][2], text[d][2]>>>>
<1>1. text \in Seq(Token) /\ Len(text) \in Nat
  BY LenProperties DEF Held
<1>2. d + 2 \in 1 .. Len(text) /\ text[d + 1] = LF /\ text[d + 2] = LF
  BY AfterData
<1>3. text[d] # LF
  BY Tokens
<1>4. PICK k \in 1 .. Len(br) : br[k] = d + 1
  <2>1. d + 1 \in 1 .. Len(text) - 1 /\ (d + 1) - 1 = d /\ (d + 1) + 1 = d + 2
    BY <1>1, <1>2
  <2> QED
    BY <1>2, <1>3, <2>1 DEF Cuts
<1> DEFINE s == Start(br, k)
           frame == FrameOf(text, br, k)
           line(field) == {x \in DOMAIN frame : frame[x][1] = field}
           data == line("data")
           event == line("event")
<1>5. /\ s \in 1 .. Len(text) + 1 /\ br[k] \in 1 .. Len(text) - 1
      /\ \A l \in 1 .. Len(br) : br[l] < br[k] => br[l] + 2 <= s
      /\ k > 1 => s = br[k - 1] + 2 /\ br[k - 1] < br[k] /\ k - 1 \in 1 .. Len(br)
      /\ k = 1 => s = 1
  BY <1>1, Frames
<1>6. /\ DOMAIN frame = 1 .. Len(frame) /\ Len(frame) \in Nat
      /\ \A x \in 1 .. Len(frame) : /\ s + x - 1 \in s .. br[k] - 1
                                    /\ s + x - 1 \in 1 .. Len(text)
                                    /\ frame[x] = text[s + x - 1]
      /\ \A c \in s .. br[k] - 1 : c - s + 1 \in 1 .. Len(frame) /\ frame[c - s + 1] = text[c]
  <2>1. Cuts(text, br) /\ k \in 1 .. Len(br)
    OBVIOUS
  <2>2. text \in Seq(Token)
    BY <1>1
  <2>3. Within(frame, text, s, br[k] - 1)
    BY ONLY <2>1, <2>2, InFrame
  <2> HIDE DEF frame, s
  <2> QED
    BY ONLY <2>3 DEF Within
<1>7. Dispatched(frame) = IF Cardinality(data) = 1 /\ event # {}
                          THEN <<<<frame[Max(event)][2], frame[Max(data)][2]>>>> ELSE <<>>
  BY DEF Dispatched
<1> HIDE DEF s, frame
<1>8. PICK e \in 1 .. Len(text) : text[e] = <<"event", text[d][2]>> /\ e < d /\ d = e + 2
  <2>1. EventBefore(text, from, d, torn)
    <3>1. WireOK(w, sent) /\ Held(text, from, base, w, t, torn)
      OBVIOUS
    <3>2. d \in 1 .. Len(text) /\ IsData(text[d]) /\ base + 3 < from[d]
      OBVIOUS
    <3> QED
      BY ONLY <3>1, <3>2, BeforeData
  <2> QED
    BY <2>1 DEF EventBefore
<1>9. text[e] # LF /\ IsEvent(text[e])
  BY <1>8, Tokens
<1>10. s <= e
  <2>1. CASE k = 1
    BY <1>1, <1>5, <2>1
  <2>2. CASE k # 1
    <3>1. k > 1
      BY <2>2 DEF Cuts
    <3>2. s = br[k - 1] + 2 /\ br[k - 1] < d + 1 /\ k - 1 \in 1 .. Len(br)
      BY <1>4, <1>5, <3>1
    <3>3. br[k - 1] \in Nat /\ text[br[k - 1]] = LF /\ text[br[k - 1] + 1] = LF
      <4>1. br[k - 1] \in 1 .. Len(text) - 1
        BY <3>2 DEF Cuts
      <4>2. text[br[k - 1]] = LF /\ text[br[k - 1] + 1] = LF
        BY <3>2 DEF Cuts
      <4> QED
        BY <1>1, <4>1, <4>2
    <3> DEFINE c == br[k - 1]
    <3>4. c # d /\ c + 1 # d /\ c # e /\ c + 1 # e
      BY <1>3, <1>9, <3>3
    <3>5. e \in Nat /\ c \in Nat /\ d = e + 2 /\ c < d + 1 /\ s = c + 2
      BY <1>8, <3>2, <3>3
    <3> HIDE DEF c
    <3> QED
      BY ONLY <3>4, <3>5
  <2> QED
    BY <2>1, <2>2
<1>11. e - s + 1 \in event /\ d - s + 1 \in data
  <2>1. e \in s .. br[k] - 1 /\ d \in s .. br[k] - 1
    BY <1>1, <1>4, <1>5, <1>8, <1>10
  <2>2. /\ e - s + 1 \in 1 .. Len(frame) /\ frame[e - s + 1] = text[e]
        /\ d - s + 1 \in 1 .. Len(frame) /\ frame[d - s + 1] = text[d]
    BY <1>6, <2>1
  <2> QED
    BY <1>6, <1>9, <2>2 DEF IsData, IsEvent
<1>12. ASSUME NEW c \in s .. br[k] - 1, c \in 1 .. Len(text), IsData(text[c])
       PROVE  c = d
  <2> SUFFICES ASSUME c # d PROVE FALSE
    OBVIOUS
  <2>1. c < d
    BY <1>1, <1>4, <1>5, <1>12
  <2>2. t \in Nat /\ base \in Nat /\ from[c] < from[d]
    BY <1>12, <2>1 DEF Held
  <2>3. /\ from[c] \in 1 .. Len(w) /\ w[from[c]] = text[c]
        /\ from[d] \in 1 .. Len(w) /\ w[from[d]] = text[d] /\ from[d] \in base + 1 .. t
    <3>1. from[c] \in 1 .. Len(w) /\ w[from[c]] = text[c]
      BY <1>12, HeldLine
    <3>2. from[d] \in 1 .. Len(w) /\ w[from[d]] = text[d] /\ from[d] \in base + 1 .. t
      BY HeldLine
    <3> QED
      BY <3>1, <3>2
  <2>4. from[c] + 4 < from[d]
    BY <1>12, <2>2, <2>3, PastData
  <2>5. from[c] + 3 <= t
    <3>1. from[c] \in Nat /\ from[d] \in Nat /\ from[d] <= t
      <4>1. from[c] \in 1 .. Len(w) /\ from[d] \in base + 1 .. t /\ base \in Nat /\ t \in Nat
        BY <2>2, <2>3
      <4> QED
        BY ONLY <4>1
    <3> QED
      BY ONLY <2>2, <2>4, <3>1
  <2>6. c + 2 \in 1 .. Len(text) /\ text[c + 1] = LF /\ text[c + 2] = LF
    BY <1>12, <2>5, AfterData
  <2>7. c + 1 \in 1 .. Len(text) - 1 /\ (c + 1) - 1 = c /\ (c + 1) + 1 = c + 2
    BY <1>1, <1>12, <2>6
  <2>8. text[c] # LF
    BY <1>12, Tokens
  <2>9. PICK l \in 1 .. Len(br) : br[l] = c + 1
    BY <2>6, <2>7, <2>8 DEF Cuts
  <2>10. br[l] + 2 <= s
    <3>1. c \in Nat /\ d \in Nat /\ c + 1 < d + 1
      BY <1>12, <2>1
    <3> QED
      BY <1>4, <1>5, <2>9, <3>1
  <2> QED
    BY <1>1, <1>5, <1>12, <2>9, <2>10
<1>13. data = {d - s + 1}
  <2> SUFFICES ASSUME NEW x \in data PROVE x = d - s + 1
    BY <1>11
  <2>1. x \in 1 .. Len(frame) /\ IsData(frame[x])
    BY <1>6 DEF IsData
  <2>2. s + x - 1 = d
    BY <1>6, <1>12, <2>1
  <2> QED
    BY <1>1, <1>5, <2>1, <2>2
<1>14. Cardinality(data) = 1
  BY <1>13, FS_Singleton
<1>15. Dispatched(frame) # <<>>
  BY <1>7, <1>11, <1>14
<1>16. PICK c \in s .. br[k] - 1 : /\ c \in 1 .. Len(text) /\ IsData(text[c])
                                  /\ Dispatched(frame) = <<<<text[c][2], text[c][2]>>>>
  BY <1>15, Dispatch DEF s, frame
<1>17. c = d
  BY <1>12, <1>16
<1> QED
  BY <1>4, <1>16, <1>17 DEF frame, s

-----------------------------------------------------------------------------
(* All the calls of a text *)

(* The calls are those of data lines before lim, in the order sent. *)
CallsOf(c, text, lim) ==
  /\ c \in Seq(Nat \X Nat) /\ Len(c) \in Nat
  /\ \A i \in 1 .. Len(c) : \E d \in 1 .. Len(text) :
       d < lim /\ IsData(text[d]) /\ c[i] = <<text[d][2], text[d][2]>>
  /\ \A i, j \in 1 .. Len(c) : i < j => c[i][1] < c[j][1]

Numbered(text) ==
  /\ \A d \in 1 .. Len(text) : IsData(text[d]) => text[d][2] \in Nat
  /\ \A d, e \in 1 .. Len(text) :
       d < e /\ IsData(text[d]) /\ IsData(text[e]) => text[d][2] < text[e][2]

LEMMA HeldNumbers ==
  ASSUME NEW w, NEW sent, WireOK(w, sent), NEW t,
         NEW text, NEW from, NEW base, NEW torn, Held(text, from, base, w, t, torn)
  PROVE  Numbered(text)
<1>1. text \in Seq(Token) /\ \A d, e \in 1 .. Len(text) : d < e => from[d] < from[e]
  BY DEF Held
<1>2. \A d \in 1 .. Len(text) : IsData(text[d]) => from[d] \in 1 .. Len(w) /\ w[from[d]] = text[d]
  BY HeldLine
<1>3. \A p, q \in 1 .. Len(w) : p < q /\ IsData(w[p]) /\ IsData(w[q]) => w[p][2] < w[q][2]
  BY DEF WireOK
<1>4. \A d \in 1 .. Len(text) : text[d] \in Token
  BY <1>1, ElementOfSeq
<1>5. \A d \in 1 .. Len(text) : IsData(text[d]) => text[d][2] \in Nat
  BY <1>4, Tokens
<1>6. \A d, e \in 1 .. Len(text) :
        d < e /\ IsData(text[d]) /\ IsData(text[e]) => text[d][2] < text[e][2]
  BY ONLY <1>1, <1>2, <1>3
<1> QED
  BY ONLY <1>5, <1>6 DEF Numbered

LEMMA NoMoreCalls ==
  ASSUME NEW text, Len(text) \in Nat, NEW lim \in Nat, NEW to \in Nat, lim <= to, NEW c, CallsOf(c, text, lim)
  PROVE  CallsOf(c \o <<>>, text, to)
<1>1. c \o <<>> = c
  BY ConcatEmptySeq DEF CallsOf
<1>2. \A d \in 1 .. Len(text) : d < lim => d < to
  OBVIOUS
<1> QED
  BY <1>1, <1>2 DEF CallsOf

LEMMA OneMoreCall ==
  ASSUME NEW text, Len(text) \in Nat, Numbered(text), NEW lim \in Nat, NEW to \in Nat,
         NEW c, CallsOf(c, text, lim),
         NEW d \in 1 .. Len(text), lim <= d, d < to, IsData(text[d])
  PROVE  CallsOf(c \o <<<<text[d][2], text[d][2]>>>>, text, to)
<1> DEFINE x == <<text[d][2], text[d][2]>>
           one == <<x>>
           v == c \o one
<1>1. x \in Nat \X Nat /\ x[1] = text[d][2] /\ one \in Seq(Nat \X Nat) /\ Len(one) = 1 /\ one[1] = x
  BY DEF Numbered
<1>2. c \in Seq(Nat \X Nat) /\ Len(c) \in Nat
  BY DEF CallsOf
<1> HIDE DEF one, x
<1>3. /\ v \in Seq(Nat \X Nat) /\ Len(v) = Len(c) + 1
      /\ \A i \in 1 .. Len(c) : v[i] = c[i]
      /\ v[Len(c) + 1] = x
  <2>1. /\ c \o one \in Seq(Nat \X Nat) /\ Len(c \o one) = Len(c) + Len(one)
        /\ \A p \in 1 .. Len(c) : (c \o one)[p] = c[p]
        /\ \A p \in 1 .. Len(one) : (c \o one)[Len(c) + p] = one[p]
    <3>1. c \in Seq(Nat \X Nat) /\ one \in Seq(Nat \X Nat)
      BY <1>1, <1>2
    <3> QED
      BY ONLY <3>1, Joined
  <2> QED
    BY <1>1, <2>1
<1> HIDE DEF v
<1>4. \A i \in 1 .. Len(v) : i \in 1 .. Len(c) \/ i = Len(c) + 1
  BY <1>2, <1>3
<1>5. \A i \in 1 .. Len(c) : c[i][1] < x[1]
  <2> SUFFICES ASSUME NEW i \in 1 .. Len(c) PROVE c[i][1] < x[1]
    OBVIOUS
  <2>1. PICK e \in 1 .. Len(text) : e < lim /\ IsData(text[e]) /\ c[i] = <<text[e][2], text[e][2]>>
    BY DEF CallsOf
  <2>2. e < d
    BY <2>1
  <2> QED
    BY <1>1, <2>1, <2>2 DEF Numbered
<1>6. \A i \in 1 .. Len(v) : \E e \in 1 .. Len(text) :
        e < to /\ IsData(text[e]) /\ v[i] = <<text[e][2], text[e][2]>>
  <2> SUFFICES ASSUME NEW i \in 1 .. Len(v)
               PROVE  \E e \in 1 .. Len(text) :
                        e < to /\ IsData(text[e]) /\ v[i] = <<text[e][2], text[e][2]>>
    OBVIOUS
  <2>1. CASE i \in 1 .. Len(c)
    <3>1. PICK e \in 1 .. Len(text) : e < lim /\ IsData(text[e]) /\ c[i] = <<text[e][2], text[e][2]>>
      BY <2>1 DEF CallsOf
    <3>2. e < to
      BY <3>1
    <3>3. v[i] = c[i]
      BY ONLY <1>3, <2>1
    <3> QED
      BY ONLY <3>1, <3>2, <3>3
  <2>2. CASE i = Len(c) + 1
    BY <1>3, <2>2 DEF x
  <2> QED
    BY <1>4, <2>1, <2>2
<1>7. \A i, j \in 1 .. Len(v) : i < j => v[i][1] < v[j][1]
  <2> SUFFICES ASSUME NEW i \in 1 .. Len(v), NEW j \in 1 .. Len(v), i < j PROVE v[i][1] < v[j][1]
    OBVIOUS
  <2>1. i \in 1 .. Len(c)
    BY <1>2, <1>3
  <2>2. CASE j \in 1 .. Len(c)
    BY <1>3, <2>1, <2>2 DEF CallsOf
  <2>3. CASE j = Len(c) + 1
    BY <1>3, <1>5, <2>1, <2>3
  <2> QED
    BY <1>4, <2>2, <2>3
<1>8. Len(v) \in Nat
  BY <1>2, <1>3
<1> QED
  BY <1>3, <1>6, <1>7, <1>8 DEF CallsOf, v, one, x

Calls(text, br) == FlattenSeq([k \in 1 .. Len(br) |-> Dispatched(FrameOf(text, br, k))])

LEMMA CallsHold ==
  ASSUME NEW w, NEW sent, WireOK(w, sent), NEW t,
         NEW text, NEW from, NEW base, NEW torn, Held(text, from, base, w, t, torn),
         NEW br, Cuts(text, br)
  PROVE  /\ Len(br) = 0 => Calls(text, br) = <<>>
         /\ Len(br) # 0 =>
              /\ CallsOf(Calls(text, br), text, br[Len(br)])
              /\ \A x : \A k \in 1 .. Len(br) :
                   Dispatched(FrameOf(text, br, k)) = <<x>> =>
                     \E i \in 1 .. Len(Calls(text, br)) : Calls(text, br)[i] = x
<1> DEFINE M == Len(br)
           parts == [k \in 1 .. M |-> Dispatched(FrameOf(text, br, k))]
           calls == Calls(text, br)
<1>1. M \in Nat /\ text \in Seq(Token) /\ Len(text) \in Nat /\ Numbered(text)
  BY LenProperties, HeldNumbers DEF Held, Cuts
<1>2. CASE M = 0
  <2>1. parts = <<>>
    BY <1>2
  <2>2. Len(parts) = 0 /\ calls = FlattenSeq(parts)
    BY <2>1, EmptySeq DEF Calls
  <2> HIDE DEF calls
  <2>3. calls = <<>>
    BY <2>1, <2>2 DEF FlattenSeq
  <2> QED
    BY <1>2, <2>3 DEF calls
<1>3. ASSUME M # 0
      PROVE  /\ CallsOf(calls, text, br[M])
             /\ \A x : \A k \in 1 .. M : Dispatched(FrameOf(text, br, k)) = <<x>> =>
                     \E i \in 1 .. Len(calls) : calls[i] = x
  <2>1. \A k \in 1 .. M :
          \/ parts[k] = <<>>
          \/ \E d \in Start(br, k) .. br[k] - 1 :
               /\ d \in 1 .. Len(text) /\ IsData(text[d])
               /\ parts[k] = <<<<text[d][2], text[d][2]>>>>
    <3> SUFFICES ASSUME NEW k \in 1 .. M
                 PROVE \/ parts[k] = <<>>
                       \/ \E d \in Start(br, k) .. br[k] - 1 :
                            /\ d \in 1 .. Len(text) /\ IsData(text[d])
                            /\ parts[k] = <<<<text[d][2], text[d][2]>>>>
      OBVIOUS
    <3>1. parts[k] = Dispatched(FrameOf(text, br, k))
      OBVIOUS
    <3>2. LET frame == FrameOf(text, br, k) IN
            \/ Dispatched(frame) = <<>>
            \/ \E d \in Start(br, k) .. br[k] - 1 :
                 /\ d \in 1 .. Len(text) /\ IsData(text[d])
                 /\ Dispatched(frame) = <<<<text[d][2], text[d][2]>>>>
      BY Dispatch
    <3> QED
      BY <3>1, <3>2
  <2>2. \A k \in 1 .. M : /\ Start(br, k) \in 1 .. Len(text) + 1 /\ br[k] \in 1 .. Len(text) - 1
                          /\ k > 1 => Start(br, k) = br[k - 1] + 2 /\ br[k - 1] < br[k]
    BY <1>1, Frames
  <2>3. DOMAIN parts = 1 .. M
    OBVIOUS
  <2>4. \A x : \A k \in 1 .. M : Dispatched(FrameOf(text, br, k)) = <<x>> => parts[k] = <<x>>
    OBVIOUS
  <2>5. calls = FlattenSeq(parts)
    BY DEF Calls
  <2>6. parts \in [1 .. M -> Seq(Nat \X Nat)]
    <3> SUFFICES ASSUME NEW k \in 1 .. M PROVE parts[k] \in Seq(Nat \X Nat)
      OBVIOUS
    <3> HIDE DEF parts
    <3>1. CASE parts[k] = <<>>
      BY <3>1, EmptySeq
    <3>2. CASE parts[k] # <<>>
      <4>1. PICK d \in Start(br, k) .. br[k] - 1 :
               /\ d \in 1 .. Len(text) /\ IsData(text[d])
               /\ parts[k] = <<<<text[d][2], text[d][2]>>>>
        BY <2>1, <3>2
      <4>2. <<text[d][2], text[d][2]>> \in Nat \X Nat
        BY <1>1, <4>1 DEF Numbered
      <4> QED
        BY <4>1, <4>2
    <3> QED
      BY <3>1, <3>2
  <2> HIDE DEF parts, calls
  <2>7. parts \in Seq(Seq(Nat \X Nat)) /\ Len(parts) = M
    <3>1. parts \in Seq(Seq(Nat \X Nat))
      BY <1>1, <2>6, SeqDef
    <3> QED
      BY <1>1, <2>6, <3>1, LenProperties
  <2>8. PICK f : /\ f \in [1 .. M -> Seq(Nat \X Nat)]
                 /\ f[1] = parts[1]
                 /\ \A n \in 1 .. M - 1 : f[n + 1] = f[n] \o parts[n + 1]
                 /\ calls = f[M]
    <3>1. Len(parts) # 0
      BY <1>3, <2>7
    <3>2. \E f : /\ f \in [1 .. Len(parts) -> Seq(Nat \X Nat)]
                 /\ f[1] = parts[1]
                 /\ \A n \in 1 .. Len(parts) - 1 : f[n + 1] = f[n] \o parts[n + 1]
                 /\ FlattenSeq(parts) = f[Len(parts)]
      BY <2>7, <3>1, FlattenIs
    <3> QED
      BY <2>5, <2>7, <3>2
  <2> DEFINE Good(n) == /\ CallsOf(f[n], text, br[n])
                        /\ \A x : \A k \in 1 .. n : parts[k] = <<x>> =>
                               \E i \in 1 .. Len(f[n]) : f[n][i] = x
  <2>9. Good(1)
    <3>1. 1 \in 1 .. M /\ f[1] = parts[1]
      BY <1>1, <1>3, <2>8
    <3>2. CallsOf(<<>>, text, 0)
      BY EmptySeq DEF CallsOf
    <3>3. br[1] \in Nat
      BY <1>1, <2>2, <3>1
    <3>4. <<>> \o parts[1] = parts[1]
      BY <2>6, <3>1, ConcatEmptySeq
    <3>5. CallsOf(f[1], text, br[1])
      <4>1. CASE parts[1] = <<>>
        <5>1. CallsOf(<<>> \o <<>>, text, br[1])
          BY <1>1, <3>2, <3>3, NoMoreCalls
        <5> QED
          BY <3>1, <3>4, <4>1, <5>1
      <4>2. CASE parts[1] # <<>>
        <5>1. PICK d \in Start(br, 1) .. br[1] - 1 :
                 /\ d \in 1 .. Len(text) /\ IsData(text[d])
                 /\ parts[1] = <<<<text[d][2], text[d][2]>>>>
          BY <2>1, <3>1, <4>2
        <5>2. 0 <= d /\ d < br[1]
          BY <3>3, <5>1
        <5>3. CallsOf(<<>> \o <<<<text[d][2], text[d][2]>>>>, text, br[1])
          BY <1>1, <3>2, <3>3, <5>1, <5>2, OneMoreCall
        <5> QED
          BY <3>1, <3>4, <5>1, <5>3
      <4> QED
        BY <4>1, <4>2
    <3>6. \A x : \A k \in 1 .. 1 : parts[k] = <<x>> => \E i \in 1 .. Len(f[1]) : f[1][i] = x
      <4> SUFFICES ASSUME NEW k \in 1 .. 1, NEW x, parts[k] = <<x>>
                   PROVE  \E i \in 1 .. Len(f[1]) : f[1][i] = x
        OBVIOUS
      <4>1. f[1] = <<x>>
        BY <3>1
      <4>2. Len(f[1]) = 1 /\ f[1][1] = x
        BY <4>1
      <4> QED
        BY <4>2
    <3> QED
      BY <3>5, <3>6
  <2>10. ASSUME NEW n \in 1 .. M - 1, Good(n) PROVE Good(n + 1)
    <3> DEFINE c == f[n]
               v == f[n + 1]
               last == parts[n + 1]
    <3>1. n \in 1 .. M /\ n + 1 \in 1 .. M /\ n + 1 > 1 /\ (n + 1) - 1 = n
      BY <1>1
    <3>2. v = c \o last /\ CallsOf(c, text, br[n]) /\ last \in Seq(Nat \X Nat) /\ c \in Seq(Nat \X Nat)
      BY <2>6, <2>8, <2>10, <3>1
    <3>3. br[n] \in Nat /\ br[n + 1] \in Nat /\ Start(br, n + 1) = br[n] + 2 /\ br[n] < br[n + 1]
      BY <1>1, <2>2, <3>1
    <3>4. \A x : \A k \in 1 .. n : parts[k] = <<x>> => \E i \in 1 .. Len(c) : c[i] = x
      BY <2>10
    <3>5. \/ last = <<>>
          \/ \E d \in Start(br, n + 1) .. br[n + 1] - 1 :
               /\ d \in 1 .. Len(text) /\ IsData(text[d])
               /\ last = <<<<text[d][2], text[d][2]>>>>
      BY <2>1, <3>1
    <3>6. /\ v \in Seq(Nat \X Nat) /\ Len(v) = Len(c) + Len(last) /\ Len(c) \in Nat /\ Len(last) \in Nat
          /\ \A p \in 1 .. Len(c) : v[p] = c[p]
          /\ \A p \in 1 .. Len(last) : v[Len(c) + p] = last[p]
      <4>1. /\ c \o last \in Seq(Nat \X Nat) /\ Len(c \o last) = Len(c) + Len(last)
            /\ Len(c) \in Nat /\ Len(last) \in Nat
            /\ \A p \in 1 .. Len(c) : (c \o last)[p] = c[p]
            /\ \A p \in 1 .. Len(last) : (c \o last)[Len(c) + p] = last[p]
        <5>1. c \in Seq(Nat \X Nat) /\ last \in Seq(Nat \X Nat)
          BY <3>2
        <5> HIDE DEF c, last
        <5> QED
          BY ONLY <5>1, Joined
      <4>2. v = c \o last
        BY <3>2
      <4> HIDE DEF v, c, last
      <4> QED
        BY <4>1, <4>2
    <3> HIDE DEF v, c, last
    <3>7. CallsOf(v, text, br[n + 1])
      <4>1. CASE last = <<>>
        BY <1>1, <3>2, <3>3, <4>1, NoMoreCalls
      <4>2. CASE last # <<>>
        <5>1. PICK d \in Start(br, n + 1) .. br[n + 1] - 1 :
                 /\ d \in 1 .. Len(text) /\ IsData(text[d])
                 /\ last = <<<<text[d][2], text[d][2]>>>>
          BY <3>5, <4>2
        <5>2. br[n] <= d /\ d < br[n + 1]
          BY <3>3, <5>1
        <5> QED
          BY <1>1, <3>2, <3>3, <5>1, <5>2, OneMoreCall
      <4> QED
        BY <4>1, <4>2
    <3>8. \A x : \A k \in 1 .. n + 1 : parts[k] = <<x>> => \E i \in 1 .. Len(v) : v[i] = x
      <4> SUFFICES ASSUME NEW k \in 1 .. n + 1, NEW x, parts[k] = <<x>>
                   PROVE  \E i \in 1 .. Len(v) : v[i] = x
        OBVIOUS
      <4>1. CASE k \in 1 .. n
        <5>1. PICK i \in 1 .. Len(c) : c[i] = x
          BY <3>4, <4>1
        <5>2. i \in 1 .. Len(v) /\ v[i] = x
          BY <3>6, <5>1
        <5> QED
          BY <5>2
      <4>2. CASE k = n + 1
        <5>1. last = <<x>>
          BY <4>2 DEF last
        <5>2. Len(last) = 1 /\ last[1] = x
          BY <5>1
        <5>3. Len(c) + 1 \in 1 .. Len(v) /\ v[Len(c) + 1] = x
          BY <3>6, <5>2
        <5> QED
          BY <5>3
      <4> QED
        BY <4>1, <4>2
    <3> QED
      BY <3>7, <3>8 DEF v
  <2> HIDE DEF Good
  <2>11. \A n \in 1 .. M : Good(n)
    <3> DEFINE T == {n \in 1 .. M : ~Good(n)}
    <3> SUFFICES ASSUME T # {} PROVE FALSE
      OBVIOUS
    <3>1. PICK n \in T : \A m \in T : n <= m
      <4>1. T \in SUBSET Nat
        BY <1>1
      <4> HIDE DEF T
      <4> QED
        BY <4>1, LeastNatural
    <3>2. n \in 1 .. M /\ ~Good(n)
      OBVIOUS
    <3>3. n # 1
      BY <2>9, <3>2
    <3>4. n - 1 \in 1 .. M - 1 /\ n - 1 \in 1 .. M /\ (n - 1) + 1 = n
      BY <1>1, <3>2, <3>3
    <3>5. n - 1 \notin T
      BY <1>1, <3>1, <3>2
    <3>6. Good(n - 1)
      BY <3>4, <3>5
    <3>7. Good((n - 1) + 1)
      BY <2>10, <3>4, <3>6
    <3> QED
      BY <3>2, <3>4, <3>7
  <2>12. Good(M)
    BY <1>1, <1>3, <2>11
  <2> QED
    BY <2>4, <2>8, <2>12 DEF Good
<1> QED
  BY <1>2, <1>3 DEF Calls


-----------------------------------------------------------------------------
(* What a read leaves *)

LEMMA RestHolds ==
  ASSUME NEW w, NEW t, NEW text, NEW from, NEW base, NEW torn, Held(text, from, base, w, t, torn),
         NEW c \in 1 .. Len(text)
  PROVE  \E more : Held(SubSeq(text, c + 1, Len(text)), more, from[c], w, t, torn)
<1> DEFINE N == Len(text)
           rest == SubSeq(text, c + 1, N)
           more == [k \in 1 .. N - c |-> from[c + k]]
           cut == from[c]
<1>1. text \in Seq(Token) /\ N \in Nat /\ base \in Nat /\ t \in Nat /\ t <= Len(w) /\ c \in Nat
  BY LenProperties DEF Held
<1>2. /\ from \in [1 .. N -> base + 1 .. t] /\ \A k, l \in 1 .. N : k < l => from[k] < from[l]
      /\ \A k \in 1 .. N : text[k] = IF w[from[k]] = CR THEN LF ELSE w[from[k]]
      /\ \A p \in base + 1 .. t : w[p] # LF => \E k \in 1 .. N : from[k] = p
      /\ torn = 0 => \A k \in 1 .. N : w[from[k]] # LF
  BY DEF Held
<1>3. /\ rest \in Seq(Token) /\ Len(rest) = N - c
      /\ \A k \in 1 .. N - c : rest[k] = text[c + k]
  <2>1. \A k \in c + 1 .. N : text[k] \in Token
    BY <1>1, ElementOfSeq
  <2>2. c + 1 \in Int /\ N \in Int
    BY <1>1
  <2>3. /\ rest \in Seq(Token)
        /\ Len(rest) = IF c + 1 <= N THEN N - (c + 1) + 1 ELSE 0
        /\ \A k \in 1 .. N - (c + 1) + 1 : rest[k] = text[(c + 1) + k - 1]
    BY <2>1, <2>2, SubSeqProperties
  <2> HIDE DEF rest
  <2>4. Len(rest) = N - c
    BY <1>1, <2>3
  <2>5. \A k \in 1 .. N - c : rest[k] = text[c + k]
    <3> SUFFICES ASSUME NEW k \in 1 .. N - c PROVE rest[k] = text[c + k]
      OBVIOUS
    <3>1. k \in 1 .. N - (c + 1) + 1 /\ (c + 1) + k - 1 = c + k
      BY <1>1
    <3> QED
      BY <2>3, <3>1
  <2> QED
    BY <2>3, <2>4, <2>5
<1>4. cut \in base + 1 .. t /\ cut \in 0 .. t /\ cut \in Nat
  BY <1>1, <1>2
<1> HIDE DEF rest, N
<1>5. \A k \in 1 .. N - c : c + k \in 1 .. N /\ more[k] = from[c + k]
  BY <1>1
<1>6. more \in [1 .. N - c -> cut + 1 .. t]
  <2> SUFFICES ASSUME NEW k \in 1 .. N - c PROVE from[c + k] \in cut + 1 .. t
    OBVIOUS
  <2>1. c + k \in 1 .. N /\ c < c + k /\ c \in 1 .. N
    BY <1>1 DEF N
  <2>2. from[c] < from[c + k] /\ from[c + k] \in base + 1 .. t
    BY <1>2, <2>1
  <2> QED
    BY <1>1, <1>4, <2>2
<1>7. \A k, l \in 1 .. N - c : k < l => more[k] < more[l]
  <2> SUFFICES ASSUME NEW k \in 1 .. N - c, NEW l \in 1 .. N - c, k < l PROVE more[k] < more[l]
    OBVIOUS
  <2>1. c + k < c + l /\ c + k \in 1 .. N /\ c + l \in 1 .. N
    BY <1>1
  <2> QED
    BY <1>2, <1>5, <2>1
<1>8. \A p \in cut + 1 .. t : w[p] # LF => \E k \in 1 .. N - c : more[k] = p
  <2> SUFFICES ASSUME NEW p \in cut + 1 .. t, w[p] # LF PROVE \E k \in 1 .. N - c : more[k] = p
    OBVIOUS
  <2>1. p \in base + 1 .. t
    BY <1>1, <1>4
  <2>2. PICK k \in 1 .. N : from[k] = p
    BY <1>2, <2>1
  <2>3. c < k
    <3> SUFFICES ASSUME k <= c PROVE FALSE
      BY <1>1
    <3>1. k = c \/ k < c
      BY <1>1
    <3>2. c \in 1 .. N
      BY DEF N
    <3>3. from[k] = from[c] \/ from[k] < from[c]
      BY <1>2, <3>1, <3>2
    <3> QED
      BY <1>4, <2>2, <3>3
  <2>4. k - c \in 1 .. N - c /\ c + (k - c) = k
    BY <1>1, <2>3
  <2>5. more[k - c] = p
    BY <1>5, <2>2, <2>4
  <2> QED
    BY <2>4, <2>5
<1> HIDE DEF more, cut
<1>9. \A k \in 1 .. N - c : rest[k] = IF w[more[k]] = CR THEN LF ELSE w[more[k]]
  <2> SUFFICES ASSUME NEW k \in 1 .. N - c
               PROVE  rest[k] = IF w[more[k]] = CR THEN LF ELSE w[more[k]]
    OBVIOUS
  <2>1. c + k \in 1 .. N /\ more[k] = from[c + k] /\ rest[k] = text[c + k]
    BY <1>3, <1>5
  <2>2. text[c + k] = IF w[from[c + k]] = CR THEN LF ELSE w[from[c + k]]
    BY <1>2, <2>1
  <2> QED
    BY ONLY <2>1, <2>2
<1>10. torn = 0 => \A k \in 1 .. N - c : w[more[k]] # LF
  BY <1>2, <1>5
<1>11. Held(rest, more, cut, w, t, torn)
  BY ONLY <1>1, <1>3, <1>4, <1>6, <1>7, <1>8, <1>9, <1>10 DEF Held
<1> QED
  BY <1>11 DEF rest, cut, N

(* A cut of a text whose reads tore nothing is at the end of CR LF CR.     *)
AtCut(base, w) == base = 0 \/ (base > 2 /\ w[base] = CR /\ w[base - 2] = CR)

LEMMA CutEnds ==
  ASSUME NEW w, NEW sent, WireOK(w, sent), NEW t,
         NEW text, NEW from, NEW base, NEW torn, Held(text, from, base, w, t, torn), torn = 0,
         NEW c \in 1 .. Len(text), c + 1 \in 1 .. Len(text), text[c] = LF, text[c + 1] = LF
  PROVE  AtCut(from[c + 1], w) /\ from[c] = from[c + 1] - 2
<1> DEFINE p == from[c]
           q == from[c + 1]
<1>1. /\ text \in Seq(Token) /\ Len(text) \in Nat /\ base \in Nat /\ t \in Nat
      /\ t <= Len(w) /\ Len(w) \in Nat /\ c \in Nat
  BY LenProperties DEF Held, WireOK
<1>2. /\ from \in [1 .. Len(text) -> base + 1 .. t]
      /\ \A k, l \in 1 .. Len(text) : k < l => from[k] < from[l]
      /\ \A x \in base + 1 .. t : w[x] # LF => \E k \in 1 .. Len(text) : from[k] = x
      /\ \A k \in 1 .. Len(text) : w[from[k]] # LF
  BY DEF Held
<1>3. w[p] = CR /\ w[q] = CR
  <2>1. \A k \in 1 .. Len(text) : text[k] = IF w[from[k]] = CR THEN LF ELSE w[from[k]]
    BY DEF Held
  <2> QED
    BY <1>2, <2>1
<1>4. p \in base + 1 .. t /\ q \in base + 1 .. t /\ p < q /\ p \in Nat /\ q \in Nat
  BY <1>1, <1>2
<1>5. \A k \in 1 .. Len(text) : from[k] <= p \/ q <= from[k]
  <2> SUFFICES ASSUME NEW k \in 1 .. Len(text) PROVE from[k] <= p \/ q <= from[k]
    OBVIOUS
  <2>1. k = c \/ k < c \/ k = c + 1 \/ c + 1 < k
    BY <1>1
  <2> QED
    BY <1>2, <1>4, <2>1
<1> HIDE DEF p, q
<1>6. \A x \in 1 .. Len(w) : EndsAt(w, x)
  BY DEF WireOK
<1>7. w[p + 1] = LF /\ p + 1 \in 1 .. Len(w)
  BY <1>1, <1>3, <1>4, <1>6 DEF EndsAt
<1>8. q # p + 1
  BY <1>3, <1>7, Tokens
<1>9. q = p + 2
  <2> SUFFICES ASSUME p + 2 < q PROVE FALSE
    BY <1>4, <1>8
  <2>1. p + 2 \in base + 1 .. t /\ p + 2 \in 1 .. Len(w)
    BY <1>1, <1>4
  <2>2. ~ \E k \in 1 .. Len(text) : from[k] = p + 2
    BY <1>4, <1>5
  <2>3. w[p + 2] = LF
    BY <1>2, <2>1, <2>2
  <2>4. w[(p + 2) - 1] = CR
    BY <1>6, <2>1, <2>3 DEF EndsAt
  <2>5. (p + 2) - 1 = p + 1
    BY <1>4
  <2> QED
    BY <1>7, <2>4, <2>5, Tokens
<1>10. q > 2 /\ q - 2 = p
  BY <1>1, <1>4, <1>9
<1> QED
  BY <1>3, <1>10 DEF AtCut, p, q

(* After it, a data line has its event line. *)
LEMMA EventPast ==
  ASSUME NEW w, NEW sent, WireOK(w, sent), NEW base \in Nat, AtCut(base, w),
         NEW p \in base + 1 .. Len(w), IsData(w[p])
  PROVE  base + 3 < p
<1>1. Len(w) \in Nat /\ p \in 1 .. Len(w) /\ p \in Nat
  BY LenProperties DEF WireOK
<1>2. p > 3 /\ w[p - 3] = <<"event", w[p][2]>> /\ w[p - 2] = CR /\ w[p - 1] = LF
  BY <1>1 DEF WireOK, DataAt
<1>3. IsEvent(w[p - 3])
  BY <1>2, Tokens
<1>4. CASE base = 0
  BY <1>1, <1>2, <1>4
<1>5. CASE base > 2 /\ w[base] = CR /\ w[base - 2] = CR
  <2>1. base # p - 1
    BY <1>2, <1>5, Tokens
  <2>2. base # p - 3
    BY <1>3, <1>5, Tokens
  <2>3. base # p - 2
    <3> SUFFICES ASSUME base = p - 2 PROVE FALSE
      OBVIOUS
    <3>1. base - 2 \in 1 .. Len(w) /\ (base - 2) + 1 = p - 3
      BY <1>1, <1>5
    <3>2. EndsAt(w, base - 2)
      BY <3>1 DEF WireOK
    <3>3. w[(base - 2) + 1] = LF
      BY <1>5, <3>2 DEF EndsAt
    <3>4. w[p - 3] = LF
      BY <3>1, <3>3
    <3> QED
      BY <1>3, <3>4, Tokens
  <2>4. base < p
    BY <1>1
  <2> QED
    BY ONLY <1>1, <2>1, <2>2, <2>3, <2>4
<1> QED
  BY <1>4, <1>5 DEF AtCut

LEMMA Complete ==
  ASSUME NEW w, NEW sent, WireOK(w, sent), NEW t,
         NEW text, NEW from, NEW base, NEW torn, Held(text, from, base, w, t, torn), torn = 0,
         AtCut(base, w), NEW br, Cuts(text, br),
         NEW p \in base + 1 .. Len(w), IsData(w[p]), p + 3 <= t
  PROVE  \E k \in 1 .. Len(br) :
           /\ br[k] - 1 \in 1 .. Len(text) /\ from[br[k] - 1] = p
           /\ Dispatched(FrameOf(text, br, k)) = <<<<w[p][2], w[p][2]>>>>
<1>1. /\ base \in Nat /\ t \in Nat /\ t <= Len(w) /\ Len(w) \in Nat /\ p \in Nat
  BY LenProperties DEF Held, WireOK
<1>2. base + 3 < p
  BY <1>1, EventPast
<1>3. p \in base + 1 .. t /\ w[p] # LF /\ w[p] # CR
  BY <1>1, Tokens
<1>4. PICK d \in 1 .. Len(text) : from[d] = p
  BY <1>3 DEF Held
<1>5. text[d] = w[p]
  BY <1>3, <1>4 DEF Held
<1>6. \E k \in 1 .. Len(br) :
        /\ br[k] = d + 1
        /\ Dispatched(FrameOf(text, br, k)) = <<<<text[d][2], text[d][2]>>>>
  <2>1. IsData(text[d]) /\ base + 3 < from[d] /\ from[d] + 3 <= t
    BY <1>2, <1>4, <1>5
  <2> QED
    BY <2>1, DispatchWhole
<1>7. PICK k \in 1 .. Len(br) :
        /\ br[k] = d + 1
        /\ Dispatched(FrameOf(text, br, k)) = <<<<text[d][2], text[d][2]>>>>
  BY <1>6
<1>8. br[k] - 1 = d
  BY <1>7
<1> QED
  BY <1>4, <1>5, <1>7, <1>8

-----------------------------------------------------------------------------
(* One read *)

(* The calls so far, h, are those of data lines that are behind base, and  *)
(* of all of these if no read tore an end of line; what has been read      *)
(* since then is text.                                                     *)
Listed(h) ==
  /\ h \in Seq(Nat \X Nat) /\ Len(h) \in Nat
  /\ \A i, j \in 1 .. Len(h) : i < j => h[i][1] < h[j][1]

Behind(h, base, w) ==
  \A i \in 1 .. Len(h) : \E p \in 1 .. base : IsData(w[p]) /\ h[i] = <<w[p][2], w[p][2]>>

UpTo(h, base, w, t) ==
  /\ AtCut(base, w)
  /\ \A p \in 1 .. base : IsData(w[p]) => \E i \in 1 .. Len(h) : h[i] = <<w[p][2], w[p][2]>>
  /\ \A p \in base + 1 .. Len(w) : IsData(w[p]) => t < p + 4

Reading(h, text, from, base, w, t, torn) ==
  /\ Held(text, from, base, w, t, torn)
  /\ Behind(h, base, w)
  /\ torn = 0 => UpTo(h, base, w, t)

(* The calls of a text come after those that are behind base. *)
LEMMA CallsFollow ==
  ASSUME NEW w, NEW sent, WireOK(w, sent), NEW t,
         NEW text, NEW from, NEW base, NEW torn, Held(text, from, base, w, t, torn),
         NEW h, Listed(h), Behind(h, base, w),
         NEW c, NEW b \in 1 .. Len(text) - 1, CallsOf(c, text, b)
  PROVE  /\ Listed(h \o c) /\ Behind(h \o c, from[b + 1], w)
         /\ Len(h \o c) = Len(h) + Len(c)
         /\ \A i \in 1 .. Len(h) : (h \o c)[i] = h[i]
         /\ \A i \in 1 .. Len(c) : (h \o c)[Len(h) + i] = c[i]
<1> DEFINE v == h \o c
           base2 == from[b + 1]
<1>1. /\ Len(text) \in Nat /\ base \in Nat /\ t \in Nat /\ t <= Len(w) /\ Len(w) \in Nat /\ b \in Nat
      /\ b + 1 \in 1 .. Len(text)
      /\ from \in [1 .. Len(text) -> base + 1 .. t]
      /\ \A k, l \in 1 .. Len(text) : k < l => from[k] < from[l]
  BY LenProperties DEF Held, WireOK
<1>2. h \in Seq(Nat \X Nat) /\ Len(h) \in Nat /\ c \in Seq(Nat \X Nat) /\ Len(c) \in Nat
  BY DEF Listed, CallsOf
<1>3. /\ v \in Seq(Nat \X Nat) /\ Len(v) = Len(h) + Len(c)
      /\ \A i \in 1 .. Len(h) : v[i] = h[i]
      /\ \A i \in 1 .. Len(c) : v[Len(h) + i] = c[i]
  <2>1. h \in Seq(Nat \X Nat) /\ c \in Seq(Nat \X Nat)
    BY <1>2
  <2>2. /\ h \o c \in Seq(Nat \X Nat) /\ Len(h \o c) = Len(h) + Len(c)
        /\ Len(h) \in Nat /\ Len(c) \in Nat
        /\ \A i \in 1 .. Len(h) : (h \o c)[i] = h[i]
        /\ \A i \in 1 .. Len(c) : (h \o c)[Len(h) + i] = c[i]
    BY ONLY <2>1, Joined
  <2> QED
    BY <2>2
<1> HIDE DEF v
<1>4. base2 \in base + 1 .. t /\ base2 \in Nat /\ base < base2
  BY <1>1
<1>5. \A i \in 1 .. Len(c) : \E p \in base + 1 .. base2 : IsData(w[p]) /\ c[i] = <<w[p][2], w[p][2]>>
  <2> SUFFICES ASSUME NEW i \in 1 .. Len(c)
               PROVE  \E p \in base + 1 .. base2 : IsData(w[p]) /\ c[i] = <<w[p][2], w[p][2]>>
    OBVIOUS
  <2>1. PICK d \in 1 .. Len(text) : d < b /\ IsData(text[d]) /\ c[i] = <<text[d][2], text[d][2]>>
    BY DEF CallsOf
  <2>2. from[d] \in base + 1 .. t /\ w[from[d]] = text[d]
    BY <2>1, HeldLine
  <2>3. d < b + 1 /\ d \in 1 .. Len(text)
    BY <1>1, <2>1
  <2>4. from[d] < base2
    BY <1>1, <2>3
  <2>5. from[d] \in base + 1 .. base2
    BY <1>1, <1>4, <2>2, <2>4
  <2> QED
    BY <2>1, <2>2, <2>5
<1> HIDE DEF base2
<1>6. \A i \in 1 .. Len(v) : \/ i \in 1 .. Len(h) /\ v[i] = h[i]
                             \/ i - Len(h) \in 1 .. Len(c) /\ v[i] = c[i - Len(h)]
  <2> SUFFICES ASSUME NEW i \in 1 .. Len(v), ~(i \in 1 .. Len(h))
               PROVE  i - Len(h) \in 1 .. Len(c) /\ v[i] = c[i - Len(h)]
    BY <1>3
  <2>1. i - Len(h) \in 1 .. Len(c) /\ Len(h) + (i - Len(h)) = i
    BY <1>2, <1>3
  <2> QED
    BY <1>3, <2>1
<1>7. Behind(v, base2, w)
  <2> SUFFICES ASSUME NEW i \in 1 .. Len(v)
               PROVE  \E p \in 1 .. base2 : IsData(w[p]) /\ v[i] = <<w[p][2], w[p][2]>>
    BY DEF Behind
  <2>1. CASE i \in 1 .. Len(h) /\ v[i] = h[i]
    <3>1. PICK p \in 1 .. base : IsData(w[p]) /\ h[i] = <<w[p][2], w[p][2]>>
      BY <2>1 DEF Behind
    <3>2. p \in 1 .. base2
      BY <1>1, <1>4
    <3> QED
      BY <2>1, <3>1, <3>2
  <2>2. CASE i - Len(h) \in 1 .. Len(c) /\ v[i] = c[i - Len(h)]
    <3>1. PICK p \in base + 1 .. base2 : IsData(w[p]) /\ v[i] = <<w[p][2], w[p][2]>>
      BY <1>5, <2>2
    <3>2. p \in 1 .. base2
      BY <1>1, <1>4
    <3> QED
      BY <3>1, <3>2
  <2> QED
    BY <1>6, <2>1, <2>2
<1>8. ASSUME NEW i \in 1 .. Len(v), NEW j \in 1 .. Len(v), i < j
      PROVE  v[i][1] < v[j][1]
  <2>1. CASE j \in 1 .. Len(h) /\ v[j] = h[j]
    <3>1. i \in 1 .. Len(h)
      BY <1>2, <1>8, <2>1
    <3>2. v[i] = h[i]
      BY <1>3, <3>1
    <3> QED
      BY <1>8, <2>1, <3>1, <3>2 DEF Listed
  <2>2. CASE j - Len(h) \in 1 .. Len(c) /\ v[j] = c[j - Len(h)]
    <3>1. CASE i \in 1 .. Len(h) /\ v[i] = h[i]
      <4>1. PICK p \in 1 .. base : IsData(w[p]) /\ h[i] = <<w[p][2], w[p][2]>>
        BY <3>1 DEF Behind
      <4>2. PICK q \in base + 1 .. base2 : IsData(w[q]) /\ v[j] = <<w[q][2], w[q][2]>>
        BY <1>5, <2>2
      <4>3. p \in 1 .. Len(w) /\ q \in 1 .. Len(w) /\ p < q
        BY <1>1, <1>4
      <4>4. w[p][2] < w[q][2]
        BY <4>1, <4>2, <4>3 DEF WireOK
      <4> QED
        BY <3>1, <4>1, <4>2, <4>4
    <3>2. CASE i - Len(h) \in 1 .. Len(c) /\ v[i] = c[i - Len(h)]
      <4>1. i - Len(h) < j - Len(h)
        BY <1>2, <1>8
      <4> QED
        BY <2>2, <3>2, <4>1 DEF CallsOf
    <3> QED
      BY <1>6, <3>1, <3>2
  <2> QED
    BY <1>6, <2>1, <2>2
<1>9. Len(v) \in Nat
  BY <1>2, <1>3
<1>10. Listed(v)
  BY <1>3, <1>8, <1>9 DEF Listed
<1> QED
  BY <1>3, <1>7, <1>10 DEF v, base2

LEMMA ReadStep ==
  ASSUME NEW w, NEW sent, WireOK(w, sent), NEW t \in Nat, NEW n \in Nat \ {0}, t + n <= Len(w),
         NEW h, Listed(h), NEW text, NEW from, NEW base, NEW torn, NEW tears2,
         Reading(h, text, from, base, w, t, torn), tears2 = 0 => torn = 0,
         torn = 0 /\ t > 0 => w[t] # CR
  PROVE  LET split == Split(text \o Normalised(SubSeq(w, t + 1, t + n)))
             calls == FlattenSeq([k \in DOMAIN split.frames |-> Dispatched(split.frames[k])])
         IN /\ calls \in Seq(Nat \X Nat)
            /\ Listed(h \o calls)
            /\ \E more, past : Reading(h \o calls, split.rest, more, past, w, t + n, tears2)
<1> DEFINE all == text \o Normalised(SubSeq(w, t + 1, t + n))
           split == Split(all)
           calls == FlattenSeq([k \in DOMAIN split.frames |-> Dispatched(split.frames[k])])
           t2 == t + n
<1>1. Held(text, from, base, w, t, torn) /\ Behind(h, base, w) /\ (torn = 0 => UpTo(h, base, w, t))
  BY DEF Reading
<1>2. PICK from1 : Held(all, from1, base, w, t2, torn)
  <2>1. \E more : Held(text \o Normalised(SubSeq(w, t + 1, t + n)), more, base, w, t + n, torn)
    BY <1>1, ReadHolds
  <2> QED
    BY <2>1
<1> HIDE DEF all
<1>3. Held(all, from1, base, w, t2, tears2)
  BY <1>2 DEF Held
<1>4. /\ all \in Seq(Token) /\ Len(all) \in Nat /\ t2 \in Nat /\ base \in Nat
      /\ t2 <= Len(w) /\ Len(w) \in Nat
  BY <1>2, LenProperties DEF Held, WireOK
<1>5. PICK br : /\ Cuts(all, br)
                /\ split.frames = [k \in 1 .. Len(br) |-> SubSeq(all, Start(br, k), br[k] - 1)]
                /\ split.rest = SubSeq(all, Start(br, Len(br) + 1), Len(all))
  BY <1>4, SplitCuts
<1>6. calls = Calls(all, br)
  <2>1. DOMAIN split.frames = 1 .. Len(br)
    BY <1>5
  <2>2. \A k \in 1 .. Len(br) : split.frames[k] = FrameOf(all, br, k)
    BY <1>5 DEF FrameOf
  <2> HIDE DEF split
  <2>3. [k \in DOMAIN split.frames |-> Dispatched(split.frames[k])]
          = [k \in 1 .. Len(br) |-> Dispatched(FrameOf(all, br, k))]
    BY <2>1, <2>2
  <2> QED
    BY <2>3 DEF Calls
<1> HIDE DEF calls, split, t2
<1>7. Len(br) \in Nat
  BY <1>5 DEF Cuts
<1>8. CASE Len(br) = 0
  <2>1. calls = <<>>
    BY <1>2, <1>5, <1>6, <1>8, CallsHold
  <2>2. h \o calls = h
    BY <2>1, ConcatEmptySeq DEF Listed
  <2>3. split.rest = all
    <3>1. split.rest = SubSeq(all, 1, Len(all))
      BY <1>5, <1>8 DEF Start
    <3>2. \A k \in 1 .. Len(all) : all[k] \in Token
      BY <1>4, ElementOfSeq
    <3>3. /\ SubSeq(all, 1, Len(all)) \in Seq(Token)
          /\ Len(SubSeq(all, 1, Len(all))) = IF 1 <= Len(all) THEN Len(all) - 1 + 1 ELSE 0
          /\ \A k \in 1 .. Len(all) - 1 + 1 : SubSeq(all, 1, Len(all))[k] = all[1 + k - 1]
      BY <1>4, <3>2, SubSeqProperties
    <3>4. /\ split.rest \in Seq(Token)
          /\ Len(split.rest) = Len(all)
          /\ \A k \in 1 .. Len(all) : split.rest[k] = all[k]
      BY <1>4, <3>1, <3>3
    <3> QED
      BY <1>4, <3>4, SeqEqual
  <2>4. tears2 = 0 => UpTo(h, base, w, t2)
    <3> SUFFICES ASSUME tears2 = 0 PROVE UpTo(h, base, w, t2)
      OBVIOUS
    <3>1. AtCut(base, w) /\ torn = 0
      BY <1>1 DEF UpTo
    <3>2. ASSUME NEW p \in base + 1 .. Len(w), IsData(w[p]), p + 4 <= t2
          PROVE  FALSE
      <4>1. p + 3 <= t2
        BY <1>4, <3>2
      <4>2. \E k \in 1 .. Len(br) :
              /\ br[k] - 1 \in 1 .. Len(all) /\ from1[br[k] - 1] = p
              /\ Dispatched(FrameOf(all, br, k)) = <<<<w[p][2], w[p][2]>>>>
        BY <1>2, <1>5, <3>1, <3>2, <4>1, Complete
      <4> QED
        BY <1>8, <4>2
    <3>3. \A p \in base + 1 .. Len(w) : IsData(w[p]) => t2 < p + 4
      BY <1>4, <3>2
    <3> QED
      BY <1>1, <3>1, <3>3 DEF UpTo
  <2>5. Reading(h, all, from1, base, w, t2, tears2)
    BY <1>1, <1>3, <2>4 DEF Reading
  <2>6. calls \in Seq(Nat \X Nat)
    BY <2>1, EmptySeq
  <2> QED
    BY <2>2, <2>3, <2>5, <2>6 DEF calls, split, all, t2
<1>9. CASE Len(br) # 0
  <2> DEFINE m == Len(br)
             b == br[m]
             past == from1[b + 1]
  <2>1. m \in 1 .. Len(br) /\ b \in 1 .. Len(all) - 1 /\ all[b] = LF /\ all[b + 1] = LF
    BY <1>5, <1>7, <1>9 DEF Cuts
  <2>2. b \in Nat /\ b \in 1 .. Len(all) /\ b + 1 \in 1 .. Len(all) /\ Start(br, m + 1) = (b + 1) + 1
    <3>1. b \in Nat /\ b \in 1 .. Len(all) /\ b + 1 \in 1 .. Len(all) /\ (b + 1) + 1 = b + 2
      <4> HIDE DEF b
      <4> QED
        BY <1>4, <2>1
    <3>2. m + 1 # 1 /\ (m + 1) - 1 = m
      BY <1>7, <1>9
    <3>3. Start(br, m + 1) = b + 2
      BY <3>2 DEF Start
    <3> QED
      BY <3>1, <3>3
  <2>3. \A k \in 1 .. Len(br) : br[k] <= b /\ br[k] \in Nat
    <3>1. \A k, l \in 1 .. Len(br) : k < l => br[k] < br[l]
      BY <1>5 DEF Cuts
    <3>2. \A k \in 1 .. Len(br) : br[k] \in Nat
      BY <1>5 DEF Cuts
    <3>3. \A k \in 1 .. Len(br) : k = m \/ k < m
      BY <1>7
    <3> QED
      BY <2>1, <3>1, <3>2, <3>3
  <2>4. PICK from2 : Held(split.rest, from2, past, w, t2, torn)
    <3>1. \E more : Held(SubSeq(all, (b + 1) + 1, Len(all)), more, from1[b + 1], w, t2, torn)
      BY <1>2, <2>2, RestHolds
    <3>2. split.rest = SubSeq(all, (b + 1) + 1, Len(all))
      BY <1>5, <2>2
    <3> QED
      BY <3>1, <3>2
  <2>5. /\ CallsOf(calls, all, b)
        /\ \A x : \A k \in 1 .. Len(br) : Dispatched(FrameOf(all, br, k)) = <<x>> =>
                     \E i \in 1 .. Len(calls) : calls[i] = x
    BY <1>2, <1>5, <1>6, <1>9, CallsHold
  <2>6. /\ Listed(h \o calls) /\ Behind(h \o calls, past, w)
        /\ Len(h \o calls) = Len(h) + Len(calls)
        /\ \A i \in 1 .. Len(h) : (h \o calls)[i] = h[i]
        /\ \A i \in 1 .. Len(calls) : (h \o calls)[Len(h) + i] = calls[i]
    BY <1>1, <1>2, <2>1, <2>5, CallsFollow
  <2>7. Len(h) \in Nat /\ Len(calls) \in Nat /\ calls \in Seq(Nat \X Nat)
    BY <2>5 DEF Listed, CallsOf
  <2>8. /\ \A k, l \in 1 .. Len(all) : k < l => from1[k] < from1[l]
        /\ from1 \in [1 .. Len(all) -> base + 1 .. t2]
    BY <1>2 DEF Held
  <2>9. past \in base + 1 .. t2 /\ past \in Nat
    BY <1>4, <2>2, <2>8
  <2> HIDE DEF b, m, past
  <2>10. tears2 = 0 => UpTo(h \o calls, past, w, t2)
    <3> SUFFICES ASSUME tears2 = 0 PROVE UpTo(h \o calls, past, w, t2)
      OBVIOUS
    <3>1. torn = 0 /\ AtCut(base, w)
      BY <1>1 DEF UpTo
    <3>2. AtCut(past, w) /\ from1[b] = past - 2
      BY <1>2, <2>1, <2>2, <3>1, CutEnds DEF past
    <3>3. ASSUME NEW p \in base + 1 .. Len(w), IsData(w[p]), p + 3 <= t2
          PROVE  /\ \E i \in 1 .. Len(h \o calls) : (h \o calls)[i] = <<w[p][2], w[p][2]>>
                 /\ p < past
      <4>1. \E k \in 1 .. Len(br) :
              /\ br[k] - 1 \in 1 .. Len(all) /\ from1[br[k] - 1] = p
              /\ Dispatched(FrameOf(all, br, k)) = <<<<w[p][2], w[p][2]>>>>
        BY <1>2, <1>5, <3>1, <3>3, Complete
      <4>2. PICK k \in 1 .. Len(br) :
              /\ br[k] - 1 \in 1 .. Len(all) /\ from1[br[k] - 1] = p
              /\ Dispatched(FrameOf(all, br, k)) = <<<<w[p][2], w[p][2]>>>>
        BY <4>1
      <4>3. PICK i \in 1 .. Len(calls) : calls[i] = <<w[p][2], w[p][2]>>
        BY <2>5, <4>2
      <4>4. Len(h) + i \in 1 .. Len(h \o calls) /\ (h \o calls)[Len(h) + i] = <<w[p][2], w[p][2]>>
        BY <2>6, <2>7, <4>3
      <4>5. br[k] - 1 < b + 1
        BY <2>2, <2>3
      <4>6. from1[br[k] - 1] < from1[b + 1]
        BY <2>2, <2>8, <4>2, <4>5
      <4>7. p < past
        BY <4>2, <4>6 DEF past
      <4> QED
        BY <4>4, <4>7
    <3>4. ASSUME NEW p \in 1 .. past, IsData(w[p])
          PROVE  \E i \in 1 .. Len(h \o calls) : (h \o calls)[i] = <<w[p][2], w[p][2]>>
      <4>1. CASE p <= base
        <5>1. p \in 1 .. base
          BY <1>4, <4>1
        <5>2. PICK i \in 1 .. Len(h) : h[i] = <<w[p][2], w[p][2]>>
          BY <1>1, <3>1, <3>4, <5>1 DEF UpTo
        <5>3. i \in 1 .. Len(h \o calls) /\ (h \o calls)[i] = <<w[p][2], w[p][2]>>
          BY <2>6, <2>7, <5>2
        <5> QED
          BY <5>3
      <4>2. CASE base < p
        <5>1. p \in base + 1 .. Len(w) /\ p \in 1 .. Len(w) /\ p \in Nat
          BY <1>4, <2>9, <4>2
        <5>2. past > 2 /\ w[past] = CR /\ w[past - 2] = CR
          BY <2>9, <3>2 DEF AtCut
        <5>3. w[p + 1] = CR /\ w[p + 2] = LF /\ p + 4 <= Len(w)
          BY <3>4, <5>1 DEF WireOK, DataAt
        <5>4. p # past /\ p # past - 2
          BY <3>4, <5>2, Tokens
        <5>5. p # past - 1
          <6> SUFFICES ASSUME p = past - 1 PROVE FALSE
            OBVIOUS
          <6>1. past - 2 \in 1 .. Len(w) /\ (past - 2) + 1 = p
            BY <1>4, <2>9, <5>1, <5>2
          <6>2. EndsAt(w, past - 2)
            BY <6>1 DEF WireOK
          <6>3. w[(past - 2) + 1] = LF
            BY <5>2, <6>2 DEF EndsAt
          <6>4. w[p] = LF
            BY <6>1, <6>3
          <6> QED
            BY <3>4, <6>4, Tokens
        <5>6. p <= past /\ past <= t2
          BY <2>9
        <5>7. p + 3 <= t2
          BY ONLY <1>4, <2>9, <5>1, <5>4, <5>5, <5>6
        <5> QED
          BY <3>3, <3>4, <5>1, <5>7
      <4>3. p \in Nat /\ base \in Nat
        BY <1>4, <2>9
      <4>4. p <= base \/ base < p
        BY ONLY <4>3
      <4> QED
        BY ONLY <4>1, <4>2, <4>4
    <3>5. ASSUME NEW p \in past + 1 .. Len(w), IsData(w[p])
          PROVE  t2 < p + 4
      <4> SUFFICES ASSUME p + 4 <= t2 PROVE FALSE
        BY <1>4, <2>9
      <4>1. p \in base + 1 .. Len(w) /\ p + 3 <= t2 /\ ~(p < past)
        BY <1>4, <2>9
      <4> QED
        BY <3>3, <3>5, <4>1
    <3> QED
      BY <3>2, <3>4, <3>5 DEF UpTo
  <2>11. Held(split.rest, from2, past, w, t2, tears2)
    BY <2>4 DEF Held
  <2>12. Reading(h \o calls, split.rest, from2, past, w, t2, tears2)
    BY <2>6, <2>10, <2>11 DEF Reading
  <2> QED
    BY <2>6, <2>7, <2>12 DEF calls, split, all, t2
<1> QED
  BY <1>7, <1>8, <1>9

-----------------------------------------------------------------------------
(* The stream's invariant *)

LEMMA FramesGrow == AnswerInv /\ [AnswerNext]_avars => Len(frames') >= Len(frames)
<1> SUFFICES ASSUME AnswerInv, [AnswerNext]_avars PROVE Len(frames') >= Len(frames)
  OBVIOUS
<1> USE DEF AnswerInv
<1>1. endpoint \in {"ask", "stream", "complete"} /\ shown \in Nat
  BY AnswerAssumption DEF Numeral
<1>2. <<>> \in Seq(Alphabet) /\ Len(<<>>) = 0
  BY EmptySeq
<1>3. \A d \in Deltas : d \in Seq(Alphabet)
  BY AnswerAssumption DEF Alphabet
<1>4. Len(frames) \in Nat /\ Len(frames') \in Nat
  <2>1. frames' \in Seq(Framed)
    BY AnswerInvNext
  <2> QED
    BY <2>1, LenProperties
<1>5. CASE ask \/ chat_completions
  <2>1. step = "request"
    BY <1>5 DEF ask, chat_completions
  <2>2. Len(frames) = 0
    BY <1>2, <2>1
  <2> QED
    BY <1>4, <2>2
<1>6. ASSUME NEW text \in Seq(Alphabet), ReplyWith(text), step = "text", ~Streaming
      PROVE  Len(frames') >= Len(frames)
  <2> DEFINE fs == frames \o DeltaFrames(text)
             gs == fs \o LastFrames(text, "none")
  <2>1. Unended(frames) /\ Text(frames) = <<>>
    <3>1. FlattenSeq(<<>>) = <<>>
      BY <1>2 DEF FlattenSeq
    <3> QED
      BY <1>6, <3>1
  <2>2. /\ fs \in Seq(Framed) /\ Unended(fs) /\ Len(fs) >= Len(frames)
        /\ Text(fs) = IF endpoint = "complete" THEN <<>> ELSE text
    <3>1. <<>> \o text = text
      BY ConcatEmptySeq
    <3> QED
      BY <2>1, <3>1, DeltaText
  <2> HIDE DEF fs
  <2>3. Len(gs) >= Len(fs)
    BY <1>1, <2>2, LastFramesEnd
  <2>4. frames' = gs
    BY <1>6 DEF ReplyWith, fs
  <2>5. Len(fs) \in Nat
    BY <2>2, LenProperties
  <2> HIDE DEF gs
  <2> QED
    BY <1>4, <2>2, <2>3, <2>4, <2>5
<1>7. CASE apologize
  <2>1. <<>> \in Seq(Alphabet)
    BY <1>2
  <2>2. ReplyWith(<<>>) /\ step = "text" /\ ~Streaming
    BY <1>7 DEF apologize, Streaming
  <2> QED
    BY ONLY <1>6, <2>1, <2>2
<1>8. CASE extract
  <2>1. PICK snippet \in Deltas : ReplyWith(_extractive_answer(snippet))
    BY <1>8 DEF extract
  <2>2. _extractive_answer(snippet) \in Seq(Alphabet)
    BY <1>3, <2>1, Extracted
  <2>3. step = "text" /\ ~Streaming
    BY <1>8 DEF extract, Streaming
  <2> QED
    BY ONLY <1>6, <2>1, <2>2, <2>3
<1>9. CASE stream_text
  <2>1. PICK delta \in Deltas : frames' = frames \o DeltaFrames(delta)
    BY <1>9 DEF stream_text
  <2>2. delta \in Seq(Alphabet) /\ Unended(frames)
    BY <1>3, <1>9 DEF stream_text, Streaming
  <2> QED
    BY <2>1, <2>2, DeltaText
<1>10. CASE conclude
  <2>1. /\ Unended(frames)
        /\ Text(frames) = IF endpoint = "complete" THEN <<>> ELSE collected
        /\ final_usage \in {"zero", "some"}
    BY <1>10 DEF conclude, Streaming, final_usage
  <2>2. frames' = frames \o LastFrames(collected, final_usage)
    BY <1>10 DEF conclude
  <2> QED
    BY <1>1, <2>1, <2>2, LastFramesEnd
<1>11. CASE usage_chunk \/ provider_fails \/ UNCHANGED avars
  BY <1>4, <1>11 DEF usage_chunk, provider_fails, avars
<1> QED
  BY <1>5, <1>7, <1>8, <1>9, <1>10, <1>11 DEF AnswerNext, Respond

StreamInv ==
  /\ AnswerInv
  /\ WireOK(wire, Len(frames))
  /\ pings \in 0 .. MaxPings
  /\ taken \in 0 .. Len(wire)
  /\ tears \in 0 .. MaxTears
  /\ Listed(handled)
  /\ turn.done => handled # <<>>
  /\ tears = 0 /\ taken > 0 => wire[taken] # CR
  /\ \E from, base : Reading(handled, buffer, from, base, wire, taken, tears)

LEMMA StreamInvInit == StreamInit => StreamInv
<1> SUFFICES ASSUME StreamInit PROVE StreamInv
  OBVIOUS
<1> USE DEF StreamInit
<1>1. AnswerInv
  BY AnswerInvInit
<1>2. \A X : <<>> \in Seq(X) /\ Len(<<>>) = 0
  BY EmptySeq
<1>3. WireOK(wire, Len(frames))
  BY <1>2 DEF WireOK
<1>4. Listed(handled) /\ turn.done = FALSE
  BY <1>2 DEF Listed, EmptyTurn
<1>5. Reading(handled, buffer, [k \in 1 .. 0 |-> 0], 0, wire, taken, tears)
  <2>1. Held(buffer, [k \in 1 .. 0 |-> 0], 0, wire, taken, tears)
    BY <1>2 DEF Held
  <2>2. UpTo(handled, 0, wire, taken) /\ Behind(handled, 0, wire)
    BY <1>2 DEF UpTo, AtCut, Behind
  <2> QED
    BY <2>1, <2>2 DEF Reading
<1> QED
  BY <1>1, <1>2, <1>3, <1>4, <1>5, StreamAssumption DEF StreamInv

(* The browser's state stays what it is when the wire grows.               *)
LEMMA ReadingKept ==
  ASSUME NEW w, NEW v, w \in Seq(Token), v \in Seq(Token), Len(w) <= Len(v),
         \A p \in 1 .. Len(w) : v[p] = w[p],
         NEW h, NEW text, NEW from, NEW base, NEW t, NEW torn,
         Reading(h, text, from, base, w, t, torn)
  PROVE  Reading(h, text, from, base, v, t, torn)
<1>1. Len(w) \in Nat /\ Len(v) \in Nat /\ base \in Nat /\ t \in Nat /\ base <= t /\ t <= Len(w)
  BY LenProperties DEF Reading, Held
<1>2. \A p \in base + 1 .. t : v[p] = w[p]
  BY <1>1
<1>3. Held(text, from, base, w, t, torn)
  BY DEF Reading
<1>4. \A k \in 1 .. Len(text) : from[k] \in base + 1 .. t /\ v[from[k]] = w[from[k]]
  BY <1>2, <1>3 DEF Held
<1>5. t <= Len(v)
  BY <1>1
<1>6. Held(text, from, base, v, t, torn)
  <2>1. \A k \in 1 .. Len(text) : text[k] = IF w[from[k]] = CR THEN LF ELSE w[from[k]]
    BY <1>3 DEF Held
  <2>2. \A k \in 1 .. Len(text) : text[k] = IF v[from[k]] = CR THEN LF ELSE v[from[k]]
    BY <1>4, <2>1
  <2>3. \A p \in base + 1 .. t : v[p] # LF => \E k \in 1 .. Len(text) : from[k] = p
    BY <1>2, <1>3 DEF Held
  <2>4. torn = 0 => \A k \in 1 .. Len(text) : v[from[k]] # LF
    BY <1>3, <1>4 DEF Held
  <2> QED
    BY <1>3, <1>5, <2>2, <2>3, <2>4 DEF Held
<1>7. \A p \in 1 .. base : v[p] = w[p]
  BY <1>1
<1>8. Behind(h, base, v)
  BY <1>7 DEF Reading, Behind
<1>9. torn = 0 => UpTo(h, base, v, t)
  <2> SUFFICES ASSUME torn = 0 PROVE UpTo(h, base, v, t)
    OBVIOUS
  <2>1. UpTo(h, base, w, t)
    BY DEF Reading
  <2>2. AtCut(base, v)
    <3>1. AtCut(base, w)
      BY <2>1 DEF UpTo
    <3>2. base > 2 => base \in 1 .. base /\ base - 2 \in 1 .. base
      BY <1>1
    <3> QED
      BY <1>7, <3>1, <3>2 DEF AtCut
  <2>3. \A p \in 1 .. base : IsData(v[p]) => \E i \in 1 .. Len(h) : h[i] = <<v[p][2], v[p][2]>>
    BY <1>7, <2>1 DEF UpTo
  <2>4. ASSUME NEW p \in base + 1 .. Len(v), IsData(v[p]) PROVE t < p + 4
    <3>1. CASE p <= Len(w)
      <4>1. p \in base + 1 .. Len(w) /\ v[p] = w[p]
        BY <1>1, <3>1
      <4> QED
        BY <2>1, <2>4, <4>1 DEF UpTo
    <3>2. CASE ~(p <= Len(w))
      BY <1>1, <3>2
    <3> QED
      BY <3>1, <3>2
  <2> QED
    BY <2>2, <2>3, <2>4 DEF UpTo
<1> QED
  BY <1>6, <1>8, <1>9 DEF Reading

LEMMA NoCalls == FoldLeft(Handle, turn, <<>>) = turn
<1> DEFINE f == [s \in {{}} |-> turn]
<1>1. DOMAIN <<>> = {} /\ SUBSET {} = {{}}
  OBVIOUS
<1> QED
  BY <1>1 DEF FoldLeft, MapThenFoldSet

LEMMA WireMonotone ==
  ASSUME NEW w, NEW sent \in Nat, NEW more \in Nat, sent <= more, WireOK(w, sent)
  PROVE  WireOK(w, more)
<1>1. \A p \in 1 .. Len(w) : IsData(w[p]) => w[p][2] <= more
  <2> SUFFICES ASSUME NEW p \in 1 .. Len(w), IsData(w[p]) PROVE w[p][2] <= more
    OBVIOUS
  <2>1. w[p] \in Token
    BY ElementOfSeq DEF WireOK
  <2>2. w[p][2] \in Nat /\ w[p][2] <= sent
    BY <2>1, Tokens DEF WireOK
  <2> QED
    BY <2>2
<1> QED
  BY <1>1 DEF WireOK

LEMMA StreamInvNext == StreamInv /\ [StreamNext]_svars => StreamInv'
<1> SUFFICES ASSUME StreamInv, [StreamNext]_svars PROVE StreamInv'
  OBVIOUS
<1>1. AnswerInv'
  BY AnswerInvNext, StreamStepAnswers DEF StreamInv
<1>2. /\ WireOK(wire, Len(frames)) /\ wire \in Seq(Token) /\ Len(wire) \in Nat
      /\ Len(frames) \in Nat /\ Len(frames') \in Nat /\ taken \in 0 .. Len(wire)
  BY <1>1, LenProperties DEF StreamInv, WireOK, AnswerInv
<1>3. PICK from, base : Reading(handled, buffer, from, base, wire, taken, tears)
  BY DEF StreamInv
<1>4. ASSUME WireOK(wire', Len(frames')), Len(wire) <= Len(wire'),
             \A p \in 1 .. Len(wire) : wire'[p] = wire[p],
             UNCHANGED <<taken, buffer, handled, turn, tears>>, pings' \in 0 .. MaxPings
      PROVE  StreamInv'
  <2>1. wire' \in Seq(Token) /\ Len(wire') \in Nat
    BY <1>4, LenProperties DEF WireOK
  <2>2. Reading(handled, buffer, from, base, wire', taken, tears)
    BY <1>2, <1>3, <1>4, <2>1, ReadingKept
  <2>3. Reading(handled', buffer', from, base, wire', taken', tears')
    BY <1>4, <2>2
  <2>4. \E more, past : Reading(handled', buffer', more, past, wire', taken', tears')
    BY <2>3
  <2>5. taken' \in 0 .. Len(wire')
    BY <1>2, <1>4, <2>1
  <2>6. tears' = 0 /\ taken' > 0 => wire'[taken'] # CR
    <3>1. taken > 0 => taken \in 1 .. Len(wire)
      BY <1>2
    <3> QED
      BY <1>4, <3>1 DEF StreamInv
  <2>7. tears' \in 0 .. MaxTears /\ Listed(handled') /\ (turn'.done => handled' # <<>>)
    BY <1>4 DEF StreamInv
  <2> QED
    BY <1>1, <1>4, <2>4, <2>5, <2>6, <2>7 DEF StreamInv
<1>5. CASE answer
  <2>1. Len(frames') >= Len(frames)
    BY <1>5, FramesGrow DEF answer, StreamInv
  <2>2. UNCHANGED <<taken, buffer, handled, turn, tears>> /\ pings' \in 0 .. MaxPings
    BY <1>5 DEF answer, StreamInv
  <2>3. CASE endpoint # "ask"
    <3>1. wire' = wire
      BY <1>5, <2>3 DEF answer
    <3>2. WireOK(wire', Len(frames'))
      BY <1>2, <2>1, <3>1, WireMonotone
    <3> QED
      BY <1>2, <1>4, <2>2, <3>1, <3>2
  <2>4. CASE endpoint = "ask"
    <3> DEFINE n == Len(frames') - Len(frames)
    <3>1. n \in Nat /\ Len(frames) + n = Len(frames')
      BY <1>2, <2>1
    <3>2. wire' = wire \o FlattenSeq([k \in 1 .. n |-> Written(Len(frames) + k)])
      BY <1>5, <2>4 DEF answer
    <3> HIDE DEF n
    <3>3. LET v == wire \o FlattenSeq([k \in 1 .. n |-> Written(Len(frames) + k)]) IN
          /\ WireOK(v, Len(frames) + n) /\ Len(v) >= Len(wire)
          /\ \A p \in 1 .. Len(wire) : v[p] = wire[p]
      BY <1>2, <3>1, WireFrames
    <3>4. /\ WireOK(wire', Len(frames')) /\ Len(wire') >= Len(wire)
          /\ \A p \in 1 .. Len(wire) : wire'[p] = wire[p]
      BY <3>1, <3>2, <3>3
    <3>5. Len(wire') \in Nat
      BY <3>4, LenProperties DEF WireOK
    <3>6. Len(wire) <= Len(wire')
      BY <1>2, <3>4, <3>5
    <3> QED
      BY <1>4, <2>2, <3>4, <3>6
  <2> QED
    BY <2>3, <2>4
<1>6. CASE ping
  <2>1. UNCHANGED <<taken, buffer, handled, turn, tears>> /\ frames' = frames
    BY <1>6 DEF ping, avars
  <2>2. pings' \in 0 .. MaxPings
    BY <1>6, StreamAssumption DEF ping, StreamInv
  <2>3. wire' = wire \o Comment
    BY <1>6 DEF ping
  <2>4. WireOK(wire', Len(frames'))
    BY <1>2, <2>1, <2>3, WireComment
  <2>5. Comment \in Seq(Token)
    BY DEF Comment, Token, CR, LF
  <2>6. Len(wire) <= Len(wire') /\ \A p \in 1 .. Len(wire) : wire'[p] = wire[p]
    <3>1. /\ wire \o Comment \in Seq(Token) /\ Len(wire \o Comment) = Len(wire) + Len(Comment)
          /\ Len(wire) \in Nat /\ Len(Comment) \in Nat
          /\ \A p \in 1 .. Len(wire) : (wire \o Comment)[p] = wire[p]
          /\ \A p \in 1 .. Len(Comment) : (wire \o Comment)[Len(wire) + p] = Comment[p]
      BY <1>2, <2>5, Joined
    <3> QED
      BY <2>3, <3>1
  <2> QED
    BY <1>4, <2>1, <2>2, <2>4, <2>6
<1>7. ASSUME NEW n \in 1 .. MaxRead, streamEvents(n)
      PROVE  StreamInv'
  <2> DEFINE chunk == SubSeq(wire, taken + 1, taken + n)
             split == Split(buffer \o Normalised(chunk))
             calls == FlattenSeq([i \in DOMAIN split.frames |-> Dispatched(split.frames[i])])
  <2>1. n \in Nat \ {0} /\ taken \in Nat /\ taken + n <= Len(wire)
    BY <1>2, <1>7, StreamAssumption DEF streamEvents
  <2>2. /\ taken' = taken + n /\ wire' = wire /\ pings' = pings /\ frames' = frames
        /\ buffer' = split.rest /\ handled' = handled \o calls
        /\ turn' = FoldLeft(Handle, turn, calls)
        /\ tears' = tears + (IF Last(chunk) = CR THEN 1 ELSE 0) /\ tears' <= MaxTears
    BY <1>7 DEF streamEvents, avars
  <2>3. Last(chunk) = wire[taken + n]
    <3>1. \A p \in taken + 1 .. taken + n : wire[p] \in Token
      BY <1>2, <2>1, ElementOfSeq
    <3>2. /\ chunk \in Seq(Token)
          /\ Len(chunk) = IF taken + 1 <= taken + n THEN (taken + n) - (taken + 1) + 1 ELSE 0
          /\ \A k \in 1 .. (taken + n) - (taken + 1) + 1 : chunk[k] = wire[(taken + 1) + k - 1]
      BY <2>1, <3>1, SubSeqProperties
    <3> HIDE DEF chunk
    <3>3. Len(chunk) = n /\ n \in 1 .. (taken + n) - (taken + 1) + 1 /\ (taken + 1) + n - 1 = taken + n
      BY <2>1, <3>2
    <3>4. chunk[n] = wire[taken + n]
      BY <3>2, <3>3
    <3> QED
      BY <3>3, <3>4 DEF Last
  <2>4. tears \in Nat /\ tears \in 0 .. MaxTears /\ MaxTears \in Nat
    BY StreamAssumption DEF StreamInv
  <2> HIDE DEF chunk
  <2>5. tears' \in 0 .. MaxTears /\ (tears' = 0 => tears = 0 /\ Last(chunk) # CR)
    BY <2>2, <2>4
  <2>6. /\ calls \in Seq(Nat \X Nat)
        /\ Listed(handled \o calls)
        /\ \E more, past : Reading(handled \o calls, split.rest, more, past, wire, taken + n, tears')
    <3>1. WireOK(wire, Len(frames)) /\ taken \in Nat /\ n \in Nat \ {0} /\ taken + n <= Len(wire)
      BY <1>2, <2>1
    <3>2. Listed(handled) /\ Reading(handled, buffer, from, base, wire, taken, tears)
      BY <1>3 DEF StreamInv
    <3>3. (tears' = 0 => tears = 0) /\ (tears = 0 /\ taken > 0 => wire[taken] # CR)
      BY <2>5 DEF StreamInv
    <3> HIDE DEF calls, split
    <3> QED
      BY ONLY <3>1, <3>2, <3>3, ReadStep DEF chunk, split, calls
  <2> HIDE DEF split, calls
  <2>7. \E more, past : Reading(handled', buffer', more, past, wire', taken', tears')
    BY <2>2, <2>6
  <2>8. turn'.done => handled' # <<>>
    <3>1. CASE calls = <<>>
      <4>1. handled' = handled
        BY <2>2, <3>1, ConcatEmptySeq DEF StreamInv, Listed
      <4>2. turn' = turn
        BY <2>2, <3>1, NoCalls
      <4> QED
        BY <4>1, <4>2 DEF StreamInv
    <3>2. CASE calls # <<>>
      <4>1. handled \in Seq(Nat \X Nat)
        BY DEF StreamInv, Listed
      <4>2. handled \o calls # <<>>
        BY <2>6, <3>2, <4>1, ConcatEqualIffEmpty
      <4> QED
        BY <2>2, <4>2
    <3> QED
      BY <3>1, <3>2
  <2>9. Listed(handled')
    BY <2>2, <2>6
  <2>10. taken' \in 0 .. Len(wire')
    BY <1>2, <2>1, <2>2
  <2>11. tears' = 0 /\ taken' > 0 => wire'[taken'] # CR
    BY <2>2, <2>3, <2>5
  <2>12. WireOK(wire', Len(frames')) /\ pings' \in 0 .. MaxPings
    BY <1>2, <2>2 DEF StreamInv
  <2> QED
    BY <1>1, <2>5, <2>7, <2>8, <2>9, <2>10, <2>11, <2>12 DEF StreamInv
<1>8. CASE UNCHANGED svars
  <2>1. /\ UNCHANGED <<taken, buffer, handled, turn, tears>>
        /\ frames' = frames /\ wire' = wire /\ pings' = pings
    BY <1>8 DEF svars, avars, bvars
  <2>2. pings' \in 0 .. MaxPings
    BY <2>1 DEF StreamInv
  <2> QED
    BY <1>2, <1>4, <2>1, <2>2
<1> QED
  BY <1>5, <1>6, <1>7, <1>8 DEF StreamNext

LEMMA StreamTypeFollows == StreamInv => StreamTypeOK
<1> SUFFICES ASSUME StreamInv PROVE StreamTypeOK
  OBVIOUS
<1>1. frames \in Seq(Framed) /\ Len(frames) \in Nat /\ DOMAIN frames = 1 .. Len(frames)
  BY LenProperties DEF StreamInv, AnswerInv
<1>2. ASSUME NEW i \in DOMAIN frames
      PROVE  /\ frames[i].event \in {"role", "passages", "delta", "citations", "usage", "done"}
             /\ frames[i].event = "done" <=> step = "done" /\ i = Len(frames)
  <2>1. i \in 1 .. Len(frames) /\ frames[i] \in Framed
    BY <1>1, <1>2, ElementOfSeq
  <2>2. frames[i].event \in {"role", "passages", "delta", "citations", "usage", "done"}
    BY <2>1 DEF Framed, FrameSet, Events, Ending
  <2>3. CASE step = "done"
    <3>1. PICK counts : Ended(frames, FlattenSeq(said), counts, shown)
      BY <2>3 DEF StreamInv, AnswerInv
    <3>2. frames[i].event = "done" <=> i = Len(frames)
      BY <2>1, <3>1 DEF Ended
    <3> QED
      BY <2>2, <2>3, <3>2
  <2>4. CASE step # "done"
    <3>1. Unended(frames)
      BY <2>4 DEF StreamInv, AnswerInv
    <3>2. frames[i].event # "done"
      BY <2>1, <3>1 DEF Unended, Ending
    <3> QED
      BY <2>2, <2>4, <3>2
  <2> QED
    BY <2>3, <2>4
<1>3. AnswerTypeOK
  BY <1>2 DEF AnswerTypeOK, StreamInv, AnswerInv
<1> QED
  BY <1>3 DEF StreamTypeOK, StreamInv

LEMMA HandledFollows == StreamInv => HandledAsSent
<1> SUFFICES ASSUME StreamInv PROVE HandledAsSent
  OBVIOUS
<1> DEFINE N == Len(handled)
           D == {p \in 1 .. taken - 4 : wire[p][1] = "data" /\ p + 4 <= taken}
<1>1. /\ handled \in Seq(Nat \X Nat) /\ N \in Nat /\ DOMAIN handled = 1 .. N
      /\ \A i, j \in 1 .. N : i < j => handled[i][1] < handled[j][1]
      /\ \A i \in 1 .. N : handled[i] \in Nat \X Nat
  BY LenProperties, ElementOfSeq DEF StreamInv, Listed
<1>2. PICK from, base : Reading(handled, buffer, from, base, wire, taken, tears)
  BY DEF StreamInv
<1>3. /\ WireOK(wire, Len(frames)) /\ Len(wire) \in Nat /\ taken \in 0 .. Len(wire) /\ taken \in Nat
      /\ base \in 0 .. taken /\ base \in Nat
  BY <1>2, LenProperties DEF StreamInv, WireOK, Reading, Held
<1>4. \A i \in 1 .. N : \E p \in 1 .. base :
        IsData(wire[p]) /\ handled[i] = <<wire[p][2], wire[p][2]>>
  BY <1>2 DEF Reading, Behind
<1>5. \A i \in 1 .. N : handled[i][1] = handled[i][2]
  BY <1>4
<1>6. ASSUME tears = 0 PROVE N = Cardinality(D)
  <2>1. UpTo(handled, base, wire, taken)
    BY <1>2, <1>6 DEF Reading
  <2>2. \A p \in 1 .. base : IsData(wire[p]) => p \in D
    <3> SUFFICES ASSUME NEW p \in 1 .. base, IsData(wire[p]) PROVE p \in D
      OBVIOUS
    <3>1. base > 2 /\ wire[base] = CR /\ wire[base - 2] = CR
      BY <1>3, <2>1 DEF UpTo, AtCut
    <3>2. p \in 1 .. Len(wire) /\ p \in Nat
      BY <1>3
    <3>3. wire[p + 1] = CR /\ wire[p + 2] = LF /\ wire[p + 3] = CR
      BY <1>3, <3>2 DEF WireOK, DataAt
    <3>4. p # base /\ p # base - 2
      BY <3>1, Tokens
    <3>5. p # base - 1
      <4> SUFFICES ASSUME p = base - 1 PROVE FALSE
        OBVIOUS
      <4>1. base - 2 \in 1 .. Len(wire) /\ (base - 2) + 1 = p
        BY <1>3, <3>1, <3>2
      <4>2. EndsAt(wire, base - 2)
        BY <1>3, <4>1 DEF WireOK
      <4>3. wire[(base - 2) + 1] = LF
        BY <3>1, <4>2 DEF EndsAt
      <4>4. wire[p] = LF
        BY <4>1, <4>3
      <4> QED
        BY <4>4, Tokens
    <3>6. taken # p + 3
      <4> SUFFICES ASSUME taken = p + 3 PROVE FALSE
        OBVIOUS
      <4>1. wire[taken] # CR
        BY <1>3, <1>6, <3>2 DEF StreamInv
      <4> QED
        BY <3>3, <4>1
    <3>7. p <= base /\ base <= taken
      BY <1>3
    <3>8. p + 4 <= taken
      BY ONLY <1>3, <3>2, <3>4, <3>5, <3>6, <3>7
    <3>9. p \in 1 .. taken - 4
      BY <1>3, <3>2, <3>8
    <3> QED
      BY <3>8, <3>9 DEF IsData
  <2>3. \A p \in D : p \in 1 .. base /\ IsData(wire[p])
    <3> SUFFICES ASSUME NEW p \in D PROVE p \in 1 .. base /\ IsData(wire[p])
      OBVIOUS
    <3>1. IsData(wire[p]) /\ p \in 1 .. taken - 4 /\ p + 4 <= taken
      BY DEF IsData
    <3>2. p \in Nat /\ p > 0 /\ p <= Len(wire)
      BY <1>3, <3>1
    <3>3. ~(p \in base + 1 .. Len(wire))
      BY <1>3, <2>1, <3>1, <3>2 DEF UpTo
    <3>4. p <= base
      BY <1>3, <3>2, <3>3
    <3> QED
      BY <1>3, <3>1, <3>2, <3>4
  <2> HIDE DEF D
  <2>4. \A p, q \in D : p # q => wire[p][2] # wire[q][2]
    <3> SUFFICES ASSUME NEW p \in D, NEW q \in D, p # q PROVE wire[p][2] # wire[q][2]
      OBVIOUS
    <3>1. p \in 1 .. Len(wire) /\ q \in 1 .. Len(wire) /\ IsData(wire[p]) /\ IsData(wire[q])
      BY <1>3, <2>3
    <3>2. wire[p][2] \in Nat /\ wire[q][2] \in Nat
      BY <1>3, <3>1, ElementOfSeq, Tokens DEF WireOK
    <3>3. p < q \/ q < p
      BY <3>1
    <3> QED
      BY <1>3, <3>1, <3>2, <3>3 DEF WireOK
  <2> DEFINE at == [i \in 1 .. N |-> CHOOSE p \in D : handled[i] = <<wire[p][2], wire[p][2]>>]
  <2>5. \A i \in 1 .. N : at[i] \in D /\ handled[i] = <<wire[at[i]][2], wire[at[i]][2]>>
    <3> SUFFICES ASSUME NEW i \in 1 .. N
                 PROVE  at[i] \in D /\ handled[i] = <<wire[at[i]][2], wire[at[i]][2]>>
      OBVIOUS
    <3>1. \E p \in D : handled[i] = <<wire[p][2], wire[p][2]>>
      BY <1>4, <2>2
    <3> QED
      BY <3>1
  <2>6. \A p \in D : \E i \in 1 .. N : handled[i] = <<wire[p][2], wire[p][2]>>
    BY <2>1, <2>3 DEF UpTo
  <2> HIDE DEF N
  <2>7. at \in [1 .. N -> D]
    BY <2>5
  <2> HIDE DEF at
  <2>8. IsInjective(at)
    <3> SUFFICES ASSUME NEW i \in 1 .. N, NEW j \in 1 .. N, at[i] = at[j] PROVE i = j
      BY <2>7 DEF IsInjective
    <3>1. handled[i] = handled[j]
      BY <2>5
    <3>2. ~(i < j) /\ ~(j < i)
      <4>1. handled[i][1] \in Nat /\ handled[i][1] = handled[j][1]
        BY <1>1, <3>1
      <4> QED
        BY <1>1, <4>1
    <3> QED
      BY <1>1, <3>2
  <2>9. \A p \in D : \E i \in 1 .. N : at[i] = p
    <3> SUFFICES ASSUME NEW p \in D PROVE \E i \in 1 .. N : at[i] = p
      OBVIOUS
    <3>1. PICK i \in 1 .. N : handled[i] = <<wire[p][2], wire[p][2]>>
      BY <2>6
    <3>2. wire[at[i]][2] = wire[p][2] /\ at[i] \in D
      BY <2>5, <3>1
    <3>3. at[i] = p
      BY <2>4, <3>2
    <3> QED
      BY <3>3
  <2>10. at \in Bijection(1 .. N, D)
    BY <2>7, <2>8, <2>9 DEF Bijection, Injection, Surjection
  <2>11. ExistsBijection(1 .. N, D)
    BY <2>10 DEF ExistsBijection
  <2> QED
    BY <1>1, <2>11, FS_CountingElements
<1> QED
  BY <1>1, <1>5, <1>6 DEF HandledAsSent

LEMMA StreamAlways == StreamSpec => []StreamInv
<1>1. StreamInit => StreamInv
  BY StreamInvInit
<1>2. StreamInv /\ [StreamNext]_svars => StreamInv'
  BY StreamInvNext
<1> QED
  BY <1>1, <1>2, PTL DEF StreamSpec

(* Type correctness of the answer and of its stream (ask, answer_stream,   *)
(* streamEvents, Ask.tsx): only frames of the protocol leave, done is the  *)
(* last of them, and the page shows it only after a call.                  *)
THEOREM StreamTypeCorrect == StreamSpec => []StreamTypeOK
BY StreamAlways, StreamTypeFollows, PTL

(* HandledAsSent: however the network cuts the stream, streamEvents calls  *)
(* its handlers with the data of their own event, in the order sent and    *)
(* never twice, and with every frame that has been read whole as long as   *)
(* no read ends between CR and LF.                                         *)
THEOREM HandledCorrect == StreamSpec => []HandledAsSent
BY StreamAlways, HandledFollows, PTL
=============================================================================
