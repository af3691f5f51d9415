----------------------------- MODULE MCChunking -----------------------------
(* FlowChunking on short texts and small documents.  Words of 1 to 4 units *)
(* meet budgets of 3 and 5 tokens, so that words alone are over it, counts *)
(* do not add up, and an overlap may be as large as the window.            *)
EXTENDS FlowChunking

Word(units, gap, stop) == [units |-> units, gap |-> gap, stop |-> stop, line |-> 0]
SomeWords == {Word(1, 6, FALSE), Word(2, 3, TRUE), Word(4, 5, FALSE), Word(1, 2, TRUE)}
SomeSentences == {Word(1, 6, FALSE), Word(1, 3, TRUE), Word(2, 3, TRUE)}

Block(order, kind, section, text) ==
  [order |-> order, kind |-> kind, section |-> section, words |-> text]

(* Two paragraphs, of one or two and of up to n words. *)
Paragraphs(Vocabulary, n) ==
  {{Block(1, "paragraph", <<>>, a), Block(2, "paragraph", <<>>, b)} :
     a \in SeqOf(Vocabulary, 2) \ {<<>>}, b \in SeqOf(Vocabulary, n)}

(* Three blocks of one word. *)
Layouts ==
  {{Block(n, x[n][1], x[n][2], <<Word(x[n][3], 6, TRUE)>>) : n \in 1 .. 3} :
     x \in [1 .. 3 -> {"table", "heading", "paragraph", "footer"} \X {<<1>>, <<1, 2>>} \X {1, 3}]}

SomeDocuments ==
  [s \in Strategies |-> CASE s = "layout" -> Layouts
                          [] s = "semantic" -> Paragraphs(SomeSentences, 3)
                          [] OTHER -> Paragraphs(SomeWords, 2)]

Line(kind, mark) == [kind |-> kind, mark |-> mark, units |-> IF kind = "list" THEN 3 ELSE 1]
BlankLine == Line("blank", 0)
FewLines == {BlankLine, Line("heading", 1), Line("heading", 2), Line("fence", 1),
             Line("paragraph", 0)}
MarkdownLines == FewLines \cup {Line("heading", 3), Line("fence", 2), Line("list", 0),
                                Line("table", 0)}
PlainLines == {BlankLine, Line("paragraph", 0)}

SomeTexts ==
  [e \in {"md", "csv", "txt", "pdf"} |->
     CASE e = "md" -> SeqOf(FewLines, 4) \cup SeqOf(MarkdownLines, 3)
       [] e = "pdf" -> {<<>>}
       [] OTHER -> SeqOf(PlainLines, 5)]
=============================================================================
