----------------------------- MODULE FieldRules -----------------------------
(***************************************************************************)
(* The fields of the DTOs: what class-transformer makes of a value that a  *)
(* client sends, and whether class-validator then lets it through to the   *)
(* handler.                                                                *)
(*                                                                         *)
(* A field is a record: hand maps what was sent to what the handler would  *)
(* get, admitted holds what its validators accept, and skipped holds what  *)
(* is let through without asking them.  The option each, which no DTO of   *)
(* the repository uses, is left out: a list is never asked for its         *)
(* elements.                                                               *)
(***************************************************************************)
EXTENDS Naturals

\* Texts are told apart by what they are the text of: a word (letters only),
\* a date, a member of an enum, ...; "symbol" holds blanks and brackets.
Texts ==
  {"empty", "short", "word", "long", "symbol", "digits", "true", "uuid",
   "email", "url", "jwt", "iso", "member"}
Numbers == {"zero", "negative", "one", "huge", "fraction"}
Sent ==
  Texts \union Numbers \union {"absent", "null", "flag", "object", "list", "objects"}

\* What may be handed to a handler.
Handed ==
  Texts \union Numbers \union
  {"undefined", "null", "NaN", "boolean", "date", "invalidDate", "object",
   "instance", "instances", "list"}

-------------------------------------------------------------------------------
(* Conversions.  Null and a missing value stay what they are; a list is        *)
(* converted element by element and stays a list.                              *)

Plain ==
  [v \in Sent |-> CASE v = "absent"  -> "undefined"
                    [] v = "flag"    -> "boolean"
                    [] v = "objects" -> "list"
                    [] OTHER         -> v]

TypeString ==
  [v \in Sent |-> CASE v \in Numbers  -> "digits"
                    [] v = "flag"     -> "true"
                    [] v = "object"   -> "symbol"
                    [] OTHER          -> Plain[v]]

\* Number(''), Number('12') and Number(true) are numbers.
TypeNumber ==
  [v \in Sent |-> CASE v = "empty"             -> "zero"
                    [] v \in {"digits", "flag"} -> "one"
                    [] v \in Texts \union {"object"} -> "NaN"
                    [] OTHER                    -> Plain[v]]

TypeDate ==
  [v \in Sent |-> CASE v \in {"iso", "digits", "flag"} \union Numbers -> "date"
                    [] v \in Texts \union {"object"} -> "invalidDate"
                    [] OTHER -> Plain[v]]

TypeClass ==
  [v \in Sent |-> CASE v = "object"  -> "instance"
                    [] v = "objects" -> "instances"
                    [] OTHER         -> Plain[v]]

ToBoolean == [v \in Sent |-> IF v = "true" THEN "boolean" ELSE Plain[v]]

\* ToLowerCase and ToUpperCase make an empty text and null a missing value.
ToCase(hand) ==
  [v \in Sent |-> IF hand[v] \in {"empty", "null"} THEN "undefined" ELSE hand[v]]

-------------------------------------------------------------------------------
(* Fields.                                                                     *)

\* An option that is not given has the default of its decorator.
Options ==
  [nullable : BOOLEAN, int : BOOLEAN, min : BOOLEAN, max : BOOLEAN,
   positive : BOOLEAN, minLength : {"default", "zero", "one"},
   maxLength : BOOLEAN, case : {"default", "on", "off"}, required : BOOLEAN]

\* The options of a decorator that is given none.
NoOptions ==
  [nullable |-> FALSE, int |-> FALSE, min |-> FALSE, max |-> FALSE,
   positive |-> FALSE, minLength |-> "default", maxLength |-> FALSE,
   case |-> "default", required |-> TRUE]

\* IsNullable lets null through, NotEquals(null) does not.
Field(hand, admitted, o) ==
  [hand |-> hand, admitted |-> admitted,
   skipped |-> IF o.nullable THEN {"null"} ELSE {}]

\* Faulty variant: only a missing value is optional.
IsOptionalStrict(field) ==
  [field EXCEPT !.skipped = @ \union {"undefined"}]

\* IsOptional lets null through as well as a missing value, nullable or not.
IsOptional(field) ==
  [field EXCEPT !.skipped = @ \union {"undefined", "null"}]

NumberField(o) ==
  Field(TypeNumber,
        Numbers \ ((IF o.int THEN {"fraction"} ELSE {})
                    \union (IF o.min \/ o.positive THEN {"zero", "negative"} ELSE {})
                    \union (IF o.max THEN {"huge"} ELSE {})), o)
NumberFieldOptional(o) == IsOptional(NumberField(o))

StringField(o) ==
  Field(IF o.case = "on" THEN ToCase(TypeString) ELSE TypeString,
        Texts \ ((IF o.minLength = "zero" THEN {} ELSE {"empty"})
                  \union (IF o.maxLength THEN {"long"} ELSE {})), o)
StringFieldOptional(o) ==
  IsOptional(StringField(
    [o EXCEPT !.minLength = IF @ = "default" THEN "zero" ELSE @]))

TokenField(o) == Field(TypeString, {"jwt"}, o)

\* Six characters at least, of letters, digits and a few signs.
PasswordField(o) ==
  [StringField(o) EXCEPT !.admitted = @ \intersect {"word", "long"}]
PasswordFieldOptional(o) == IsOptional(PasswordField(o))

BooleanField(o) == Field(ToBoolean, {"boolean"}, o)
BooleanFieldOptional(o) == IsOptional(BooleanField(o))

\* Lower case unless the option says otherwise.
EmailField(o) ==
  [StringField([o EXCEPT !.case = IF @ = "default" THEN "on" ELSE @])
     EXCEPT !.admitted = @ \intersect {"email"}]
EmailFieldOptional(o) == IsOptional(EmailField(o))

UUIDField(o) == Field(TypeString, {"uuid"}, o)
UUIDFieldOptional(o) == IsOptional(UUIDField(o))

URLField(o) == [StringField(o) EXCEPT !.admitted = @ \intersect {"url"}]
URLFieldOptional(o) == IsOptional(URLField(o))

DateField(o) == Field(TypeDate, {"date"}, o)
DateFieldOptional(o) == IsOptional(DateField(o))

EnumField(o) == Field(Plain, {"member"}, o)
EnumFieldOptional(o) == IsOptional(EnumField(o))

\* A list of objects is validated element by element, and passes for one.  A
\* missing value is refused only by IsDefined.
ClassField(o) ==
  Field(TypeClass, {"instance", "instances"}
          \union IF o.required THEN {} ELSE {"undefined"}, o)
ClassFieldOptional(o) == IsOptional(ClassField([o EXCEPT !.required = FALSE]))

Admits(field, v) == field.hand[v] \in field.skipped \union field.admitted

===============================================================================
