------------------------------ MODULE MCRowRules -------------------------------
\* Rows that differ from a sound one in a few columns: every remark with every
\* status and Volare row, every contact with every statement, every relation
\* with every RFD, every pair of sentiments.  The limit of 10 stands for 200.
EXTENDS RowRules

Remarks == {
  <<"paid", "today">>, <<>>, <<"nan">>, <<"predictive">>,
  <<"L3", "-", "OBD">>, <<"PH", "-", "0917", "paid">>, <<"link", "SRC", "-", "ops", "paid">>,
  <<"BCAL", "-", "CH", "123", "paid">>, <<"BCAL", "L3", "CH", "123", "paid">>,
  <<"TYPE OF RFD:", "explicit", "|", "RFD:", "medical", "|", "REMARKS:", "paid">>,
  <<"L3", "TYPE OF RFD:", "explicit", "|", "RFD:", "medical">>,
  <<"RFD:", "medical", "|", "TYPE OF RFD:", "explicit">>,
  <<"TYPE OF RFD", "|", "explicit", "|", "RFD", "|", "|", "REMARKS", "|", "paid", "today">>,
  <<"TYPE OF RFD", "|", "RFD", "|", "medical", "|", "paid">> }

Refused == <<"TYPE OF RFD:", "representative", "refused", "|", "RFD:", "denied">>
NoContact == <<"TYPE OF RFD:", "no", "client", "/", "representative", "reached", "|", "RFD:", "away">>

Relations == {<<>>, <<"parent">>, <<"aunt", "/", "tita">>, <<"security", "guard">>, <<"friend">>,
              <<"neighbor", "/", "friend">>}
PartSet == {Null, Part(0, 2), Part(3, 1), Part(1, 5), Part(2, 0), Part(0, 6)}
Sentiments == {<<"positive">>, <<"negative">>, <<"unsure">>, <<>>}
Statuses == {<<"visited">>, <<"failed">>}

Sound ==
  [remark |-> <<"paid", "today">>, status |-> <<"visited">>, relation |-> <<"parent">>,
   client_sentiment |-> <<"positive">>, unit_sentiment |-> <<"negative">>,
   contact_person |-> Part(0, 2), statement |-> Part(0, 3)]

Pairing(field, volare) == [field |-> field, volare |-> volare]
Without(source, column) == [c \in DOMAIN source \ {column} |-> source[c]]

MCCandidate ==
  {Pairing([Sound EXCEPT !.remark = r, !.statement = p], Null) : r \in Remarks, p \in {Null, Part(0, 3)}}
  \cup {Pairing(Sound, [remark |-> r, status |-> s]) : r \in Remarks, s \in Statuses}
  \cup {Pairing([Sound EXCEPT !.contact_person = p, !.statement = q, !.status = s], Null) :
          p \in PartSet, q \in PartSet, s \in Statuses}
  \cup {Pairing([Sound EXCEPT !.relation = w, !.remark = r], Null) :
          w \in Relations, r \in {Refused, NoContact, <<"paid", "today">>}}
  \cup {Pairing([Sound EXCEPT !.client_sentiment = v], [unit_sentiment |-> w, status |-> s]) :
          v \in Sentiments, w \in Sentiments, s \in Statuses}
  \cup {Pairing(Without(Sound, column), Null) : column \in DOMAIN Sound}

Answer(form, fields, confidence) == [form |-> form, fields |-> fields, confidence |-> confidence]
Told == << <<"explicit">>, <<"medical">>, <<>>, Null >>
MCResponse ==
  {Answer("raises", NoFields, 0), Answer("no object", NoFields, 0), Answer("other keys", Told, 90)}
  \cup {Answer("object", Told, n) : n \in {0, 69, 70, 100, 150}}
===============================================================================
