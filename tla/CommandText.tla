----------------------------- MODULE CommandText -----------------------------
(***************************************************************************)
(* The text of a command and of the command line: how a line is cut into   *)
(* parameters, what the loop of executeModes gives to each mode letter,    *)
(* and which numbers, names and passwords are accepted.  Pure functions of *)
(* the program, over a text that grows by one character at a time.         *)
(*                                                                         *)
(* A text is a sequence of characters.  Only the classes that the code     *)
(* tells apart are there: "a" is any letter; SP, TAB, VT and LF are the    *)
(* blanks of isspace, VT for those that operator>> alone knows (VT, FF and *)
(* a CR with no line feed after it); "#" is a character that no nickname   *)
(* may have and that a channel name begins with.  The name of a command,   *)
(* at the start of a line, counts as one character.                        *)
(***************************************************************************)
EXTENDS Integers, Sequences, FiniteSets, SequencesExt

CONSTANTS
  LineChar, NumberChar, ModeChar,    \* the characters of each kind of text
  MaxLine, MaxNumber, MaxModes,      \* bounds: lengths of the texts
  MaxParams,                         \* bound: parameters of a MODE command
  MaxNick,          \* the longest nickname, 9 in the code
  MaxClients,       \* MAX_CLIENT
  MaxBuffer,        \* the longest buffer of a client that is handled, 511
  MinPort, MaxPort, \* 1024 and 65535
  IntMax, LongMax   \* the largest int and long

CommandName ==
  {"PASS", "CAP", "NICK", "USER", "JOIN", "PRIVMSG", "MSG", "PING", "QUIT",
   "KICK", "PART", "MODE", "INVITE", "TOPIC"}

\* What a line is made of; of PASS both spellings occur.
Char == {"a", "#", ":", "SP", "TAB", "VT", "LF", "pass"} \cup CommandName

ASSUME TextAssumption ==
  /\ LineChar \subseteq {"a", "#", ":", "SP", "TAB", "VT", "LF"}
  /\ {MaxLine, MaxNumber, MaxModes, MaxParams, MaxNick, MaxBuffer} \subseteq Nat
  /\ {MaxClients, MinPort, MaxPort, IntMax, LongMax} \subseteq Nat
  /\ MinPort <= MaxPort /\ MaxPort <= IntMax /\ IntMax <= LongMax
  /\ 999 <= IntMax     \* three digits fit an int

VARIABLES
  kind,             \* is the text a line, a number or the letters of a MODE?
  text

vars == <<kind, text>>

Alphabet ==
  [line |-> LineChar, number |-> NumberChar, modes |-> ModeChar]

MaxLength == [line |-> MaxLine, number |-> MaxNumber, modes |-> MaxModes]

Init == kind \in DOMAIN Alphabet /\ text = <<>>

Next ==
  /\ Len(text) < MaxLength[kind]
  /\ \E x \in Alphabet[kind] : text' = Append(text, x)
  /\ UNCHANGED kind

Spec == Init /\ [][Next]_vars

-----------------------------------------------------------------------------
\* Lines.

Blank == {"SP", "TAB", "VT", "LF"}

\* The text before the first character of S.
Until(s, S) ==
  LET i == SelectInSeq(s, LAMBDA x : x \in S)
  IN  IF i = 0 THEN s ELSE SubSeq(s, 1, i - 1)

\* What is left of the stream when leading blanks are skipped.
SkipBlanks(s) ==
  LET i == SelectInSeq(s, LAMBDA x : x \notin Blank)
  IN  IF i = 0 THEN <<>> ELSE SubSeq(s, i, Len(s))

\* Mutant of Trailing: the colon stays.
TrailingWithColon(word, rest) == word \o Until(rest, {"LF"})

\* The last parameter: the colon goes, the rest of the line stays as it is.
Trailing(word, rest) == Tail(word) \o Until(rest, {"LF"})

\* Mutant of IsTrailing: a colon anywhere in a word starts the last parameter.
HasColon(word) == ":" \in ToSet(word)

IsTrailing(word) == Head(word) = ":"

SplitIRCMessage[s \in Seq(Char)] ==
  LET unread == SkipBlanks(s)
      word == Until(unread, Blank)
      rest == SubSeq(unread, Len(word) + 1, Len(unread))
  IN  IF unread = <<>> THEN <<>>
      ELSE IF IsTrailing(word) THEN <<Trailing(word, rest)>>
      ELSE <<word>> \o SplitIRCMessage[rest]

\* A command may be spelled in any case.
ToUpper(word) == IF word = <<"pass">> THEN <<"PASS">> ELSE word

Handler(cmd) ==
  CASE cmd \in {<<"PASS">>, <<"CAP">>, <<"NICK">>, <<"USER">>, <<"JOIN">>,
                <<"PRIVMSG">>, <<"PING">>, <<"QUIT">>} -> cmd
    [] cmd = <<"MSG">> -> <<"PRIVMSG">>
    [] cmd \in {<<"KICK">>, <<"PART">>, <<"MODE">>, <<"INVITE">>,
                <<"TOPIC">>} -> <<"channel", cmd>>
    [] OTHER -> <<"unknown">>

\* Which handler a line calls, with which parameters; an empty one calls none.
ParseHandleCmd(line) ==
  LET args == SplitIRCMessage[line]
  IN  IF args = <<>> THEN [handler |-> <<"none">>, args |-> <<>>]
      ELSE [handler |-> Handler(ToUpper(Head(args))), args |-> Tail(args)]

-----------------------------------------------------------------------------
\* Names and passwords.

\* Of the nine forbidden characters of nickNameHandle, "#" and SP stand here.
ValidNick(name) ==
  /\ name # <<>>
  /\ Len(name) <= MaxNick
  /\ ToSet(name) \cap {"SP", "#"} = {}

\* The mask of joinHandle; an empty name has none.
ValidMask(name) ==
  /\ name # <<>>
  /\ Head(name) = "#"
  /\ "#" \notin ToSet(Tail(name))

\* Mutant of PassCheck: only the first kind of blank is looked for.
PassCheckTabs(pass) == pass # <<>> /\ "TAB" \notin ToSet(pass)

PassCheck(pass) == pass # <<>> /\ ToSet(pass) \cap {"SP", "TAB"} = {}

\* Does passHandle take these parameters for the password?
PassMatches(args, pass) ==
  /\ args # <<>>
  /\ "SP" \notin ToSet(args[1])
  /\ args[1] = pass

\* Is a PASS line short enough to be handled, the four letters of the name and
\* the CR and LF at its end counted?  The check comes before the line is cut.
Fits(line) == 4 + (Len(line) - 1) + 2 <= MaxBuffer

\* Does a client that sends this line, and no other, give the password?
GivesPassword(line, pass) ==
  LET called == ParseHandleCmd(line)
  IN  /\ Fits(line)
      /\ called.handler = <<"PASS">>
      /\ PassMatches(called.args, pass)

-----------------------------------------------------------------------------
\* Numbers.

Digits == <<"0", "1", "2", "3", "4", "5", "6", "7", "8", "9">>

IsDigit(x) == x \in ToSet(Digits)

AllDigits(s) == \A i \in DOMAIN s : IsDigit(s[i])

DigitValue(x) == SelectInSeq(Digits, LAMBDA d : d = x) - 1

\* The number that a text of digits writes, of any size.
Number(s) ==
  LET value[i \in 0..Len(s)] ==
        IF i = 0 THEN 0 ELSE 10 * value[i - 1] + DigitValue(s[i])
  IN  value[Len(s)]

Unsigned(s) == IF s # <<>> /\ Head(s) = "+" THEN Tail(s) ELSE s

\* A number too large for an int keeps its lower bits, the sign among them.
ToInt(n) ==
  LET low == n % (2 * (IntMax + 1))
  IN  IF low > IntMax THEN low - 2 * (IntMax + 1) ELSE low

\* atoi: no digits are read as 0.
Atoi(s) == ToInt(Number(Unsigned(s)))

Refused == -1

\* Mutant of TooLong: numbers of any length reach atoi.
NeverTooLong(s) == FALSE

\* The check that comes before atoi.
TooLong(s) == Len(s) > 3

\* The parameter of MODE +l, as mode_Plus_L reads it.
LimitOf(s) ==
  IF ~AllDigits(Unsigned(s)) \/ TooLong(s) \/ Atoi(s) > MaxClients
  THEN Refused ELSE Atoi(s)

\* Mutant of FitsInt: the number is converted at once.
AlwaysFits(n) == TRUE

\* The check that comes before the conversion to int.
FitsInt(n) == n <= IntMax

\* checkPortisValid.  Nothing can be extracted from an empty text, nor a
\* number that no long holds.
PortOf(s) ==
  IF /\ AllDigits(s)
     /\ s # <<>>
     /\ Head(s) # "0"
     /\ Number(s) <= LongMax
     /\ FitsInt(Number(s))
     /\ ToInt(Number(s)) \in MinPort..MaxPort
  THEN ToInt(Number(s)) ELSE Refused

-----------------------------------------------------------------------------
\* MODE.

\* Mutant of TakesParam: k takes one with either sign.
KeyAlwaysTakesParam(x, sign) == x \in {"o", "k"} \/ (x = "l" /\ sign = "+")

TakesParam(x, sign) == x = "o" \/ (x \in {"k", "l"} /\ sign = "+")

\* One iteration of executeModes: params is what is left of the parameters,
\* applied the calls of the mode_ functions so far.  A parameter that such a
\* function refuses is gone as well.
ModeStep(loop, x) ==
  LET call(param) == [letter |-> x, sign |-> loop.prefix, param |-> param]
  IN  CASE x \in {"+", "-"} -> [loop EXCEPT !.prefix = x]
        [] TakesParam(x, loop.prefix) ->
             IF loop.params = <<>> THEN loop
             ELSE [loop EXCEPT !.params = Tail(@),
                               !.applied = Append(@, call(Head(loop.params)))]
        [] x \in {"i", "t", "k", "l"} /\ ~TakesParam(x, loop.prefix) ->
             [loop EXCEPT !.applied = Append(@, call(0))]
        [] OTHER -> loop

ExecuteModes(s, params) ==
  IF Len(s) < 2 \/ s[1] \notin {"+", "-"} THEN <<>>
  ELSE LET loop[i \in 0..Len(s)] ==
             IF i = 0 THEN [prefix |-> ":", params |-> params, applied |-> <<>>]
             ELSE ModeStep(loop[i - 1], s[i])
       IN  loop[Len(s)].applied

-----------------------------------------------------------------------------
(***************************************************************************)
(* Properties.                                                             *)
(***************************************************************************)

\* Where a word begins, as long as no earlier word began with a colon.
WordStarts(s) ==
  LET starts == {i \in DOMAIN s : s[i] \notin Blank /\ (i > 1 => s[i - 1] \in Blank)}
  IN  {i \in starts : \A j \in starts : j < i => s[j] # ":"}

\* The parameter of a line that begins at i, without the loop.
ParameterAt(s, i) ==
  LET ends == IF s[i] = ":" THEN {"LF"} ELSE Blank
      stops == {j \in (i + 1)..Len(s) : s[j] \in ends} \cup {Len(s) + 1}
      stop == CHOOSE j \in stops : \A k \in stops : j <= k
  IN  SubSeq(s, IF s[i] = ":" THEN i + 1 ELSE i, stop - 1)

\* Every word of a line is a parameter, in order, and the first with a colon
\* takes all that follows it up to a line feed, blanks included.
SplitIsByWords ==
  kind = "line" =>
    LET starts == WordStarts(text)
        args == SplitIRCMessage[text]
    IN  /\ Len(args) = Cardinality(starts)
        /\ \A i \in starts :
             args[Cardinality({j \in starts : j <= i})] = ParameterAt(text, i)

\* A nickname or channel name that NICK or JOIN accepted can be given again as
\* the last parameter of another command (of a line that is not too long).  In front of others, where KICK and
\* MODE want the channel and INVITE the nickname, it can be given only if it
\* has no blank and no leading colon, which neither handler asks for.
NamesCanBeRepeated ==
  kind = "line" =>
    LET args == ParseHandleCmd(<<"NICK", "SP">> \o text).args
        last(name) == ParseHandleCmd(<<"KICK", "SP", "a", "SP", ":">> \o name).args
        front(name) == ParseHandleCmd(<<"KICK", "SP">> \o name \o <<"SP", "a">>).args
    IN  args # <<>> /\ (ValidNick(args[1]) \/ ValidMask(args[1])) =>
          /\ last(args[1]) = <<<<"a">>, args[1]>>
          /\ front(args[1]) = <<args[1], <<"a">>>>
               <=> ToSet(args[1]) \cap Blank = {} /\ Head(args[1]) # ":"

\* A password that the server was started with can be given by its clients, in
\* either case of PASS, as a last parameter: unless it has a line feed, which
\* ends the line, or is longer than the buffer lets through.  Without the colon
\* it can be given only if it has no blank, and passCheck knows fewer blanks
\* than operator>>: with a CR, VT or FF the server starts all the same.
PasswordCanBeGiven ==
  kind = "line" /\ PassCheck(text) =>
    LET last == <<"pass", "SP", ":">> \o text
        plain == <<"pass", "SP">> \o text
    IN  /\ GivesPassword(last, text)
             <=> "LF" \notin ToSet(text) /\ Len(text) + 8 <= MaxBuffer
        /\ GivesPassword(plain, text)
             <=> /\ ToSet(text) \cap Blank = {} /\ Head(text) # ":"
                 /\ Len(text) + 7 <= MaxBuffer

\* The limit that MODE +l sets is the number written, never what a longer one
\* wraps to, and a number that may be set is refused only for its length.
LimitIsWhatIsWritten ==
  kind = "number" =>
    LET written == Number(Unsigned(text))
    IN  IF AllDigits(Unsigned(text)) /\ written <= MaxClients /\ Len(text) <= 3
        THEN LimitOf(text) = written
        ELSE LimitOf(text) = Refused

\* The port is the number written on the command line, without leading zeros;
\* no number beyond an int or a long is taken for one within the range.
PortIsWhatIsWritten ==
  kind = "number" =>
    IF /\ AllDigits(text) /\ text # <<>> /\ Head(text) # "0"
       /\ Number(text) \in MinPort..MaxPort
    THEN PortOf(text) = Number(text)
    ELSE PortOf(text) = Refused

\* The sign that is in force at i.
SignAt(s, i) ==
  LET signs == {j \in 1..i : s[j] \in {"+", "-"}}
  IN  s[CHOOSE j \in signs : \A k \in signs : k <= j]

\* modes.cpp:8: "need params +-o +k +l", "no params i t".
NeedsParam(s, i) ==
  \/ s[i] = "o"
  \/ s[i] \in {"k", "l"} /\ SignAt(s, i) = "+"

\* However signs and letters mix, each letter that needs a parameter gets the
\* next one that was given, in order; the letters that come too late for one
\* are left out, and no other letter is.
ParametersInOrder ==
  kind = "modes" /\ Len(text) >= 2 /\ Head(text) \in {"+", "-"} =>
    \A n \in 0..MaxParams :
      LET place(i) == Cardinality({j \in 1..i : NeedsParam(text, j)})
          called ==
            {i \in DOMAIN text : /\ text[i] \in {"o", "k", "l", "i", "t"}
                                 /\ NeedsParam(text, i) => place(i) <= n}
          calls == ExecuteModes(text, [j \in 1..n |-> j])
      IN  /\ Len(calls) = Cardinality(called)
          /\ \A i \in called :
               calls[Cardinality({j \in called : j <= i})] =
                 [letter |-> text[i],
                  sign |-> SignAt(text, i),
                  param |-> IF NeedsParam(text, i) THEN place(i) ELSE 0]
=============================================================================
