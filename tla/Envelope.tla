------------------------------ MODULE Envelope ------------------------------
(***************************************************************************)
(* The envelope of every frame (crates/protocol): objects, the RDF document *)
(* each is written as and read back from, and the readers that follow one  *)
(* request's response.                                                     *)
(*                                                                         *)
(* A document is the sequence of its triples <<subject, predicate, object>>, *)
(* in order; the Turtle text of a literal is the literal, and an rdf:List  *)
(* is the sequence of its items.  A frame is a whole document.             *)
(***************************************************************************)
EXTENDS Naturals, Sequences, FiniteSets, SequencesExt

CONSTANT None  \* a property that is not there

(* The properties of a class, in the order they are written:               *)
(*   need  present, or the frame is malformed;   opt   at most one;        *)
(*   many  repeated;   list  an rdf:List, left out when empty;             *)
(*   flag  a boolean, FALSE when it is not there                           *)
Statement ==
  <<<<"id", "need">>, <<"mod", "need">>, <<"signal", "need">>, <<"params", "list">>,
    <<"database", "opt">>, <<"rowLimit", "opt">>, <<"byteLimit", "opt">>,
    <<"timeoutMs", "opt">>>>

Schemas ==
  [Query    |-> Statement,
   Execute  |-> Statement,
   Result   |-> <<<<"id", "need">>, <<"column", "list">>, <<"declType", "list">>>>,
   Done     |-> <<<<"id", "need">>, <<"rowCount", "opt">>, <<"affectedRows", "opt">>,
                  <<"lastInsertRowid", "opt">>, <<"truncated", "flag">>>>,
   Denied   |-> <<<<"id", "opt">>, <<"reason", "opt">>>>,
   Error    |-> <<<<"id", "opt">>, <<"code", "need">>, <<"reason", "opt">>>>,
   Hello    |-> <<<<"ver", "need">>, <<"enc", "many">>, <<"mods", "many">>, <<"hint", "opt">>>>,
   Knock    |-> <<<<"id", "opt">>, <<"message", "need">>>>,
   Presence |-> <<<<"at", "need">>, <<"status", "opt">>, <<"endpoint", "opt">>>>,
   Decision |-> <<<<"id", "opt">>, <<"decision", "need">>, <<"decidedBy", "need">>,
                  <<"reason", "opt">>, <<"at", "opt">>>>,
   Help     |-> <<<<"id", "opt">>, <<"topic", "many">>, <<"signal", "need">>>>,
   Media    |-> <<<<"id", "need">>, <<"contentType", "need">>>>,
   AudioDuplex |-> <<<<"id", "need">>, <<"contentType", "opt">>, <<"accepts", "need">>>>,
   Entrain  |-> <<<<"id", "need">>, <<"point", "need">>>>,
   Damp     |-> <<<<"id", "opt">>, <<"point", "need">>>>,
   Vibration |-> <<<<"id", "need">>, <<"point", "need">>, <<"seq", "need">>, <<"at", "opt">>>>,
   Graph    |-> <<<<"id", "need">>, <<"seq", "need">>>>,
   Projection |-> <<<<"id", "opt">>, <<"offers", "list">>>>]

\* What a Projection says of a point it offers.
PointSchema ==
  <<<<"label", "opt">>, <<"comment", "opt">>, <<"icon", "opt">>, <<"role", "opt">>,
    <<"projects", "opt">>, <<"coupling", "list">>, <<"mod", "opt">>, <<"signal", "opt">>,
    <<"paramsOrder", "list">>, <<"signalTemplate", "opt">>, <<"fires", "opt">>>>

Known == DOMAIN Schemas
Companioned == {"Vibration", "Graph"}

\* rsntr classes the codec passes through, and those of points.
Passed == {"Refused", "Hologram", "Chunk", "PeerPath"}
PointKinds == {"Excitable", "Radiant", "Sympathetic", "ResonancePoint"}
Rsntr(class) == class \in Known \cup Passed \cup PointKinds \cup {"Row", "BlobRef"}

Fields(schema) == {schema[i][1] : i \in DOMAIN schema}
Absent(mode) == CASE mode \in {"need", "opt"} -> None [] mode = "flag" -> FALSE [] OTHER -> <<>>

\* The fields of an object, those not given being absent.
Fill(schema, f) ==
  [x \in Fields(schema) |->
     IF x \in DOMAIN f THEN f[x]
     ELSE Absent(schema[CHOOSE i \in DOMAIN schema : schema[i][1] = x][2])]

\* An object of a known class; `pay` is what else the frame says.
Obj(class, f, pay) == [class |-> class, f |-> Fill(Schemas[class], f), pay |-> pay]
Rows(rows) == [class |-> "Row", f |-> [rows |-> rows], pay |-> <<>>]
Generic(class, props) == [class |-> class, f |-> [props |-> props], pay |-> <<>>]
Point(iri, kind, f) == [iri |-> iri, kind |-> kind, f |-> Fill(PointSchema, f)]

-----------------------------------------------------------------------------
(* Writing *)

Block(s, class, schema, f) ==
  LET pairs(i) ==
        LET x == schema[i][1]
            mode == schema[i][2]
        IN CASE mode \in {"need", "opt"} -> IF f[x] = None THEN <<>> ELSE <<<<s, x, f[x]>>>>
             [] mode = "flag" -> <<<<s, x, f[x]>>>>
             [] mode = "list" -> IF f[x] = <<>> THEN <<>> ELSE <<<<s, x, f[x]>>>>
             [] mode = "many" -> [k \in DOMAIN f[x] |-> <<s, x, f[x][k]>>]
  IN <<<<s, "a", class>>>> \o FlattenSeq([i \in DOMAIN schema |-> pairs(i)])

Subject(i) == <<"r1", "r2", "r3">>[i]
NotNull(cells) == SelectSeq(cells, LAMBDA c : c[2] # "null")

\* A NULL cell is written as column omission.
row_block(i, row) ==
  LET s == Subject(i)
      cells == NotNull(row.cells)
  IN <<<<s, "a", "Row">>, <<s, "seq", row.seq>>>> \o
     [k \in DOMAIN cells |-> <<s, cells[k][1], cells[k][2]>>]

\* A list names the points; each is a block of its own.
projection_block(o) ==
  LET offers == o.f.offers
  IN Block("h", "Projection", Schemas["Projection"],
           [o.f EXCEPT !.offers = [i \in DOMAIN offers |-> offers[i].iri]])
     \o FlattenSeq([i \in DOMAIN offers |->
                      Block(offers[i].iri, offers[i].kind, PointSchema, offers[i].f)])

\* Mutant: the payload of a frame is left out.
encode_bare(o) ==
  CASE o.class = "Row" -> FlattenSeq([i \in DOMAIN o.f.rows |-> row_block(i, o.f.rows[i])])
    [] o.class = "Projection" -> projection_block(o)
    [] o.class \in Known \ {"Projection"} -> Block("h", o.class, Schemas[o.class], o.f)
    [] OTHER -> <<<<"h", "a", o.class>>>> \o
                [i \in DOMAIN o.f.props |-> <<"h", o.f.props[i][1], o.f.props[i][2]>>]

encode(o) ==
  CASE o.class = "Row" -> FlattenSeq([i \in DOMAIN o.f.rows |-> row_block(i, o.f.rows[i])])
    [] o.class = "Projection" -> projection_block(o)
    [] o.class \in Known \ {"Projection"} ->
         Block("h", o.class, Schemas[o.class], o.f) \o o.pay
    [] OTHER -> <<<<"h", "a", o.class>>>> \o
                [i \in DOMAIN o.f.props |-> <<"h", o.f.props[i][1], o.f.props[i][2]>>]

-----------------------------------------------------------------------------
(* Reading *)

Malformed == [class |-> "malformed", f |-> <<>>, pay |-> <<>>]

About(doc, s) == SelectSeq(doc, LAMBDA t : t[1] = s)
Objects(doc, s, p) ==
  LET hits == SelectSeq(doc, LAMBDA t : t[1] = s /\ t[2] = p)
  IN [i \in DOMAIN hits |-> hits[i][3]]

\* The first object of a predicate, if any.
one(doc, s, p) == LET os == Objects(doc, s, p) IN IF os = <<>> THEN None ELSE os[1]

Lacks(doc, s, schema) ==
  \E i \in DOMAIN schema : schema[i][2] = "need" /\ one(doc, s, schema[i][1]) = None

read(doc, s, schema) ==
  Fill(schema,
       [x \in {y \in Fields(schema) : one(doc, s, y) # None} |->
          IF <<x, "many">> \in ToSet(schema) THEN Objects(doc, s, x) ELSE one(doc, s, x)])

\* Subjects typed with an rsntr class, in document order, once each; a
\* BlobRef is a value.
Typed(doc) ==
  LET types == SelectSeq(doc, LAMBDA t : t[2] = "a" /\ Rsntr(t[3]) /\ t[3] # "BlobRef")
      first(i) == \A j \in 1..(i - 1) : types[j][1] # types[i][1]
      keep == SelectSeq([i \in DOMAIN types |-> i], first)
  IN [k \in DOMAIN keep |-> types[keep[k]]]

Foreign(doc) == \E t \in ToSet(doc) : t[2] = "a" /\ ~Rsntr(t[3])

read_row(doc, s) ==
  LET cells == SelectSeq(About(doc, s), LAMBDA t : t[2] \notin {"a", "seq"})
  IN [seq |-> one(doc, s, "seq"), cells |-> [i \in DOMAIN cells |-> <<cells[i][2], cells[i][3]>>]]

\* An unknown class is kept; a point without one is bare.
read_point(doc, iri) ==
  [iri |-> iri, f |-> read(doc, iri, PointSchema),
   kind |-> IF one(doc, iri, "a") = None THEN "ResonancePoint" ELSE one(doc, iri, "a")]

companions(doc, s) == SelectSeq(doc, LAMBDA t : t[1] # s)

read_projection(doc, s) ==
  LET f == read(doc, s, Schemas["Projection"])
  IN [class |-> "Projection", pay |-> <<>>,
      f |-> [f EXCEPT !.offers = [i \in DOMAIN f.offers |-> read_point(doc, f.offers[i])]]]

\* Of the classes that come with other subjects, the first that is there
\* decides what the frame is; two subjects of it are an error.
decode(doc) ==
  LET typed == Typed(doc)
      of(c) == SelectSeq(typed, LAMBDA t : t[3] = c)
      sure(c) == Len(of(c)) = 1
      lead == IF of("Projection") # <<>> THEN "Projection"
              ELSE IF of("Vibration") # <<>> THEN "Vibration"
              ELSE IF of("Graph") # <<>> THEN "Graph" ELSE "none"
      s == typed[1][1]
      class == typed[1][3]
  IN CASE typed = <<>> -> Malformed
       [] typed # <<>> /\ \A i \in DOMAIN typed : typed[i][3] = "Row" ->
            IF Foreign(doc) \/ \E i \in DOMAIN typed : one(doc, typed[i][1], "seq") = None
            THEN Malformed
            ELSE Rows([i \in DOMAIN typed |-> read_row(doc, typed[i][1])])
       [] lead = "Projection" ->
            IF sure(lead) THEN read_projection(doc, of(lead)[1][1]) ELSE Malformed
       [] lead \in Companioned ->
            LET h == of(lead)[1][1]
            IN IF sure(lead) /\ ~Lacks(doc, h, Schemas[lead])
               THEN [class |-> lead, f |-> read(doc, h, Schemas[lead]), pay |-> companions(doc, h)]
               ELSE Malformed
       [] OTHER ->
            IF Foreign(doc) \/ Len(typed) > 1 THEN Malformed
            ELSE IF class \notin Known
            THEN Generic(class, LET ps == SelectSeq(About(doc, s), LAMBDA t : t[2] # "a")
                                IN [i \in DOMAIN ps |-> <<ps[i][2], ps[i][3]>>])
            ELSE IF Lacks(doc, s, Schemas[class]) THEN Malformed
            ELSE [class |-> class, f |-> read(doc, s, Schemas[class]), pay |-> <<>>]

\* What a reader is owed of an object: a row without its NULL cells, and of a
\* companion that has a leading class of its own, nothing.
Plain(o) ==
  IF o.class = "Row"
  THEN Rows([i \in DOMAIN o.f.rows |->
               [o.f.rows[i] EXCEPT !.cells = NotNull(@)]])
  ELSE o
Leads(o) == \E t \in ToSet(o.pay) : t[2] = "a" /\ t[3] \in Companioned \cup {"Projection"}

-----------------------------------------------------------------------------
(* Following a response: the state after a frame.  An illegal one poisons  *)
(* the reader for good.                                                    *)

NewReader(id, point) == [id |-> id, point |-> point, st |-> "start", next |-> 0, cols |-> <<>>]

\* Denied, Error and Help frames may omit the id.
check_id(r, o) == o.f.id \in {r.id, None}

\* Mutant: a trailer is enough, whatever came before it.
ResponseReader_lax(r, o) ==
  IF o.class \in {"Done", "Denied", "Error", "Help", "Media"} THEN [r EXCEPT !.st = "finished"]
  ELSE IF o.class = "Result" THEN [r EXCEPT !.st = "rows", !.cols = o.f.column]
  ELSE r

ResponseReader(r, o) ==
  LET to(st) == [r EXCEPT !.st = st]
      start == r.st = "start"
      seqs == IF o.class = "Row" THEN [i \in DOMAIN o.f.rows |-> o.f.rows[i].seq] ELSE <<>>
      declared == o.class = "Row" /\ \A i \in DOMAIN o.f.rows : \A k \in DOMAIN o.f.rows[i].cells :
                                       o.f.rows[i].cells[k][1] \in ToSet(r.cols)
  IN CASE r.st \in {"finished", "failed"} -> to("failed")
       [] o.class = "Result" /\ start /\ check_id(r, o) ->
            [r EXCEPT !.st = "rows", !.cols = o.f.column]
       [] o.class = "Row" /\ r.st = "rows" /\ declared
          /\ seqs = [i \in DOMAIN seqs |-> r.next + i - 1] -> [r EXCEPT !.next = @ + Len(seqs)]
       [] o.class = "Graph" /\ (start \/ r.st = "graphs") /\ check_id(r, o)
          /\ o.f.seq = r.next -> [r EXCEPT !.st = "graphs", !.next = @ + 1]
       [] o.class \in Passed /\ (start \/ r.st = "generics") -> to("generics")
       [] o.class = "Done" /\ ~start /\ check_id(r, o) -> to("finished")
       [] o.class \in {"Denied", "Help", "Media"} /\ start /\ check_id(r, o) -> to("finished")
       [] o.class = "Error" /\ check_id(r, o) -> to("finished")
       [] OTHER -> to("failed")

\* Mutant: the acknowledgment is not awaited.
EntrainmentReader_lax(r, o) ==
  IF o.class = "Vibration" THEN [r EXCEPT !.st = "flowing", !.next = o.f.seq + 1]
  ELSE IF o.class \in {"Done", "Denied", "Error"} THEN [r EXCEPT !.st = "finished"]
  ELSE [r EXCEPT !.st = "failed"]

EntrainmentReader(r, o) ==
  LET to(st) == [r EXCEPT !.st = st]
      flowing == r.st = "flowing"
  IN CASE r.st \in {"finished", "failed"} -> to("failed")
       [] o.class = "Done" /\ check_id(r, o) -> to(IF flowing THEN "finished" ELSE "flowing")
       [] o.class = "Vibration" /\ flowing /\ check_id(r, o) /\ o.f.point = r.point
          /\ o.f.seq = r.next -> [r EXCEPT !.next = @ + 1]
       [] o.class = "Denied" /\ ~flowing /\ check_id(r, o) -> to("finished")
       [] o.class = "Error" /\ check_id(r, o) -> to("finished")
       [] OTHER -> to("failed")

=============================================================================
