----------------------------- MODULE JsonModel -----------------------------
(****************************************************************************)
(* JsonModel (daemon/management_api/model/json_model.h) as the responses of *)
(* the management server use it.                                            *)
(*                                                                          *)
(* What comes in the body of an answer is one of                            *)
(*   "response"  an object with success and an object as responseBody       *)
(*   "bare"      the same with something else as responseBody               *)
(*   "object"    any other object, as an error page of the server           *)
(*   "array"     JSON, but no object                                        *)
(*   "text"      no JSON                                                    *)
(* and of the members only the flag and the email are told apart.           *)
(****************************************************************************)
CONSTANTS Email,   \* the accounts of the management server
          None     \* no value

ASSUME NoEmailAssumption == None \notin Email

Body == [kind : {"response", "bare", "object", "array", "text"},
         success : BOOLEAN, email : Email \cup {None}]

Response(success, email) == [kind |-> "response", success |-> success, email |-> email]

\* What is left of a null pointer, or of a body that does not parse.
EmptyObject == [kind |-> "object", success |-> FALSE, email |-> None]

\* Parse, and HasMember on the root, which has to be an object.
Parses(body) == body.kind # "array"

Parsed(body) == IF body.kind = "text" THEN EmptyObject ELSE body

\* _response_flag.
IsResponse(model) == model.kind \in {"response", "bare"}

success(model) == IsResponse(model) /\ model.success

\* The member lookups of message and get_value look into the responseBody of
\* a response, which has to be an object.
Lookups(model) == model.kind # "bare"

\* get_value; None is std::nullopt, for which value() throws.
get_value(model) == IF model.kind = "response" THEN model.email ELSE None
=============================================================================
