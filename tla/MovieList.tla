----------------------------- MODULE MovieList -----------------------------
(***************************************************************************)
(* The play list of a movie in MMS: Movie builds one string out of the     *)
(* file names of a movie (escape_string), RtdMov::play_movie takes the     *)
(* string apart again (split_list) and do_playlist plays the files, moved  *)
(* by what do_play returns: the end of a file or a key of the remote.      *)
(* A character is one of the classes the two parsers tell apart; Scheme    *)
(* stands for the three characters of "://".                               *)
(***************************************************************************)
EXTENDS Integers, Sequences, SequencesExt

CONSTANTS
  Names,     \* the file names, sequences of characters
  MaxFiles,  \* bound: files of one movie
  MaxPlays   \* bound: files played in one call of do_playlist

Letter == "a"
Space == "space"
Quote == "quote"
Backslash == "backslash"
Scheme == "scheme"
Chars == {Letter, Space, Quote, Backslash, Scheme}

ASSUME NamesAssumption == \A n \in Names : n \in Seq(Chars) /\ n # <<>>
ASSUME BoundAssumption == MaxFiles \in Nat /\ MaxPlays \in Nat

VARIABLES
  names, isPls,              \* the movie: its files, and if they are play lists
  rest, element, isString,   \* split_list: what follows s, and its locals
  files,                     \* the play list
  fileIdx, mode,             \* do_playlist: its idx, and what it does
  keyed, played              \* history: a key was pressed; the files played

movieVars == <<names, isPls, rest, element, isString, files, fileIdx, mode,
               keyed, played>>

-----------------------------------------------------------------------------
\* The characters escape_string puts a backslash before.
Escaped == {Space, Quote, Backslash}

\* (Variant: the backslash itself is not escaped.)
EscapeNoBackslash(name) ==
  FlattenSeq([i \in DOMAIN name |->
                IF name[i] \in Escaped \ {Backslash} THEN <<Backslash, name[i]>>
                ELSE <<name[i]>>])

EscapeString(name) ==
  FlattenSeq([i \in DOMAIN name |->
                IF name[i] \in Escaped THEN <<Backslash, name[i]>>
                ELSE <<name[i]>>])

\* " -playlist " of Movie; the letters of the flag are one.
Flag == <<Letter>>

\* The string that Movie hands to play_movie.
PlayString(list, pls) ==
  (IF pls THEN <<Space>> \o Flag \o <<Space>> ELSE <<>>) \o
  FlattenSeq([i \in DOMAIN list |-> <<Space>> \o EscapeString(list[i])])

\* What add_element puts into the list: the name as a local file or a URL.
File(name) == [local |-> \A i \in DOMAIN name : name[i] # Scheme, name |-> name]

MovieInit ==
  /\ \E n \in 1..MaxFiles : names \in [1..n -> Names]
  /\ isPls \in BOOLEAN
  /\ rest = PlayString(names, isPls)
  /\ element = <<>> /\ isString = FALSE /\ files = <<>>
  /\ fileIdx = 0 /\ mode = "split" /\ keyed = FALSE /\ played = <<>>

-----------------------------------------------------------------------------
(* split_list: one pass of its loop *)

AddElement == IF element # <<>> THEN Append(files, File(element)) ELSE files

EndsElement ==
  /\ mode = "split" /\ rest # <<>>
  /\ Head(rest) = Space /\ ~isString
  /\ files' = AddElement
  /\ element' = <<>> /\ rest' = Tail(rest)
  /\ UNCHANGED <<names, isPls, isString, fileIdx, mode, keyed, played>>

\* A backslash at the end of the string stands for itself.
IsEscape == Head(rest) = Backslash /\ Len(rest) > 1

TakeEscaped ==
  /\ mode = "split" /\ rest # <<>>
  /\ IsEscape
  /\ element' = Append(element, rest[2]) /\ rest' = SubSeq(rest, 3, Len(rest))
  /\ UNCHANGED <<names, isPls, isString, files, fileIdx, mode, keyed, played>>

\* Any other character; a quote is not taken, it turns the string on or off.
\* (Movie escapes its quotes, so that no list of its making turns it on.)
TakeChar ==
  /\ mode = "split" /\ rest # <<>>
  /\ ~(Head(rest) = Space /\ ~isString) /\ ~IsEscape
  /\ isString' = (isString # (Head(rest) = Quote))
  /\ element' = IF Head(rest) = Quote THEN element
                ELSE Append(element, Head(rest))
  /\ rest' = Tail(rest)
  /\ UNCHANGED <<names, isPls, files, fileIdx, mode, keyed, played>>

EndSplit ==
  /\ mode = "split" /\ rest = <<>>
  /\ mode' = "play" /\ files' = AddElement
  /\ UNCHANGED <<names, isPls, rest, element, isString, fileIdx, keyed, played>>

-----------------------------------------------------------------------------
(* do_playlist *)

\* (Variant: fileIdx < files.size().)
HasNextOffByOne == fileIdx < Len(files)

HasNext == fileIdx < Len(files) - 1

\* do_play returns: Key_MediaNext is also the end of the file and a file that
\* does not load.
Plays ==
  /\ mode = "play" /\ Len(played) < MaxPlays
  /\ played' = Append(played, fileIdx)
  /\ UNCHANGED <<names, isPls, rest, element, isString, files>>

Previous ==
  /\ Plays
  /\ keyed' = TRUE
  /\ IF fileIdx > 0 THEN fileIdx' = fileIdx - 1 /\ UNCHANGED mode
                ELSE mode' = "done" /\ UNCHANGED fileIdx

Forward ==
  /\ Plays
  /\ keyed' \in {keyed, TRUE}
  /\ IF HasNext THEN fileIdx' = fileIdx + 1 /\ UNCHANGED mode
                ELSE mode' = "done" /\ UNCHANGED fileIdx

Stop ==
  /\ Plays
  /\ keyed' = TRUE
  /\ mode' = "done"
  /\ UNCHANGED fileIdx

Split == EndsElement \/ TakeEscaped \/ TakeChar \/ EndSplit

MovieNext == Split \/ Previous \/ Forward \/ Stop

MovieSpec == MovieInit /\ [][MovieNext]_movieVars

-----------------------------------------------------------------------------
(* Properties *)

\* split_list and escape_string are inverse: whatever the names contain
\* (spaces, quotes, backslashes, URLs), the play list has the files of the
\* movie and no others, in their order.  A play list file brings Movie's flag
\* " -playlist " with it as a first file.
SplitRestoresFiles ==
  mode # "split" =>
    files = (IF isPls THEN <<File(Flag)>> ELSE <<>>) \o
            [i \in DOMAIN names |-> File(names[i])]

\* do_playlist reads files[fileIdx] inside the list wherever the keys lead it,
\* and left alone it plays every part of the movie once and in order.
PlaysListedParts ==
  /\ mode = "play" => fileIdx \in 0..(Len(files) - 1)
  /\ (mode = "done" /\ ~keyed) => played = [i \in DOMAIN files |-> i - 1]
=============================================================================
