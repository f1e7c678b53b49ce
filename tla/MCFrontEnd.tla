----------------------------- MODULE MCFrontEnd -----------------------------
(* Small files for FrontEnd: one to four lines of one to three tokens.       *)
EXTENDS FrontEnd

MCAddresses == {Zero, "a", "b"}
MCDigits == [x \in MCAddresses |-> IF x = "b" THEN 32 ELSE 1]

Word(w, fault) == Token("word", None, None, w, TRUE, fault)
CR == Token("cr", None, None, 1, FALSE, None)
Placeholder(template, fault) == Token("sender", template, None, Width(template, Zero), TRUE, fault)
Addr(form, a, spaced, fault) == Token("address", form, a, Width(form, a), spaced, fault)

Eols == {<<LF>>, <<CR>>, <<CR, LF>>}

Short == Word(1, None)
Long  == Word(12, None)
Ill   == Word(4, "type")
Plain == {<<Short>>, <<Ill>>, <<Long, Word(2, "syntax")>>, <<Word(1, "char"), Word(1, "syntax")>>,
          <<Word(3, "bytecode")>>}
Placeholders ==
    {<<Placeholder("template", None), Ill>>, <<Placeholder("spaced_template", "type"), Long>>,
     <<Placeholder("spaced_template", None), Short, Placeholder("template", None), Ill>>}
Given(form) ==
    {<<Addr(form, "a", TRUE, None), Ill>>, <<Addr(form, "b", TRUE, "type"), Long>>,
     <<Addr(form, "b", FALSE, None), Ill>>}
Lines(d) == Plain \cup Placeholders \cup Given("trimmed") \cup
    Given(CASE d = "libra" -> "ss58" [] d = "dfinance" -> "bech32" [] OTHER -> "ss58")

ThreeLines == {l \o e \o m \o d \o n : l \in {<<Short>>, <<Placeholder("spaced_template", None), Long>>},
                                           e, d \in Eols, m \in Plain, n \in Plain \cup Placeholders}
TwoLines(lines) == {l \o e \o m : l \in lines, e \in Eols, m \in lines}

MCSenders == {NoAddress} \cup [form : {"trimmed", "bech32", "ss58"}, of : {"b"}]

File(name, text) == [name |-> name, text |-> text]
Job(d, flow, s, targets, deps) ==
    [dialect |-> d, flow |-> flow, sender |-> s, targets |-> targets, deps |-> deps]

Checks ==
    UNION {{Job(d, "check", s, <<File("f", t)>>, <<>>) : s \in MCSenders, t \in TwoLines(Lines(d))} :
              d \in Dialects}
Programs ==
    {Job(d, flow, s, <<File("f", t), File("g", u)>>, <<File("h", v)>>) :
        d \in {"libra", "dfinance"}, flow \in Flows, s \in MCSenders,
        t \in Plain, u \in Placeholders \cup Plain, v \in Given("bech32") \cup Plain}
Longer == {Job("libra", "check", NoAddress, <<File("f", t)>>, <<>>) : t \in ThreeLines}
MCJobs == Checks \cup Longer \cup Programs

\* Four lines: line ends from the third on have their layers behind the start of the line.
WindowsJobs ==
    {Job("libra", "check", NoAddress, <<File("f", l \o e \o m \o e \o l \o e \o n)>>, <<>>) :
        l \in {<<Short>>, <<Long>>}, m \in {<<>>, <<Short>>}, e \in Eols, n \in Plain}
=============================================================================
