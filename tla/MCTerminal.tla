------------------------------ MODULE MCTerminal ------------------------------
(***************************************************************************)
(* The loading of a book's text and three parts of the screen it is read   *)
(* on, which share no state, checked in one run as MCReadingRoom does it:  *)
(* `suite` names the one a behaviour is of.                                *)
(***************************************************************************)
EXTENDS MCSectionLoader, PageMarks, Contents, Settings
VARIABLE suite
terminalVars == <<suite, vars, marksVars, tocVars, prefVars>>

(* A two-chapter book, laid out wide and narrow: narrow breaks a word with *)
(* a hyphen and a link over two lines.                                     *)
Line(kind, idx, text, from, to, link) ==
    [kind |-> kind, idx |-> idx, text |-> text,
     links |-> [i \in 1..Len(text) |->
                  IF i \in from..to /\ text[i] # Gap /\ text[i] # Hyphen THEN link ELSE NoLink]]
Plain(text) == Line("body", 0, text, 1, 0, NoLink)
Figure(n) == Line("image", n, <<>>, 1, 0, NoLink)
Code(n, text) == Line("code", n, text, 1, 0, NoLink)
MarksLaid == [w \in {"wide", "narrow"} |->
    IF w = "wide"
    THEN <<<<Plain(<<"a", " ", "b", "c">>), Figure(1), Figure(1), Figure(1),
             Line("body", 0, <<"d", " ", "e", " ", "f">>, 3, 5, "over"), Figure(2)>>,
           <<Line("body", 0, <<"g", " ", "a">>, 1, 1, "back"), Code(1, <<"h">>), Code(2, <<"k">>)>>>>
    ELSE <<<<Plain(<<"a", " ", "b", "-">>), Plain(<<"c">>), Figure(1), Figure(1), Figure(1),
             Line("body", 0, <<"d", " ", "e">>, 3, 3, "over"),
             Line("body", 0, <<"f">>, 1, 1, "over"), Figure(2)>>,
           <<Line("body", 0, <<"g">>, 1, 1, "back"), Plain(<<"a">>), Code(1, <<"h">>), Code(2, <<"k">>)>>>>]
MarksLeads == [over |-> [sec |-> 2, ch |-> "h"], back |-> [sec |-> 2, ch |-> "h"]]
MarksOpens == <<{1, 2}, {}>>
MarksColors == <<1, 2>>

(* An outline of two parts, the first with two chapters.                   *)
TocOutline ==
    <<[depth |-> 0, section |-> 0, says |-> {"part"}],
      [depth |-> 1, section |-> 0, says |-> {"chapter"}],
      [depth |-> 1, section |-> 1, says |-> {"chapter"}],
      [depth |-> 0, section |-> 2, says |-> {"part", "chapter"}]>>

(* Two tabs with sections in each scope of the settings, and the reading   *)
(* modes' own numbers.                                                     *)
At(tab, under, items) ==
    [i \in 1..Len(items) |-> [tab |-> tab, section |-> under, item |-> items[i]]]
PrefOptions ==
    [reader |-> At(1, "profile", <<"mode">>) \o At(1, "typography", <<"cap", "margin">>)
                \o At(2, "pagination", <<"flow">>),
     library |-> At(1, "folders", <<"folders", "add", "find">>)
                 \o At(2, "keep", <<"epub", "pdf">>) \o At(2, "columns", <<"column">>)]
PrefFinds == [width |-> {"cap", "margin"}, keep |-> {"epub", "flow"}, xyz |-> {}]
Mode(margin, cap, spacing, flow) ==
    [margin |-> margin, cap |-> cap, spacing |-> spacing, flow |-> flow]
PrefPresets == <<Mode(10, 72, 0, TRUE), Mode(12, 66, 1, FALSE), Mode(4, 0, 0, TRUE),
                 Mode(18, 60, 1, FALSE)>>
PrefFormats == <<"epub", "pdf">>

MarksRest == MarksInit /\ chapter = 1 /\ width = "wide" /\ paged = FALSE /\ use = "links"
TocRests == TocInit /\ reading = 0 /\ paneH = 2
PrefRests == PrefInit /\ wanted = {"F"}

TerminalInit ==
    /\ Init
    /\ \/ suite = "loader" /\ MarksRest /\ TocRests /\ PrefRests
       \/ suite = "marks" /\ MarksInit /\ TocRests /\ PrefRests
       \/ suite = "toc" /\ MarksRest /\ TocInit /\ PrefRests
       \/ suite = "prefs" /\ MarksRest /\ TocRests /\ PrefInit
TerminalNext ==
    \/ suite = "loader" /\ Next /\ UNCHANGED <<suite, marksVars, tocVars, prefVars>>
    \/ suite = "marks" /\ MarksNext /\ UNCHANGED <<suite, vars, tocVars, prefVars>>
    \/ suite = "toc" /\ TocNext /\ UNCHANGED <<suite, vars, marksVars, prefVars>>
    \/ suite = "prefs" /\ PrefNext /\ UNCHANGED <<suite, vars, marksVars, tocVars>>
TerminalSpec == TerminalInit /\ [][TerminalNext]_terminalVars

(* The type invariants of the four.                                        *)
TerminalTypeOK == TypeOK /\ MarksTypeOK /\ TocTypeOK /\ PrefTypeOK
=============================================================================
