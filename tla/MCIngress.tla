----------------------------- MODULE MCIngress -----------------------------
(* Instances of Ingress for TLC: what people write, and how Meta puts it     *)
(* together.                                                                 *)
EXTENDS Ingress, TLC

CONSTANTS a, b, provider, customer

TwoPeople == {provider, customer}

Letter(who, type) == [from |-> who, type |-> type]

\* A provider's text and a customer's sticker; or a text and a photo of one
\* customer, with its id or without.
Cases ==
    {(a :> Letter(provider, "text") @@ b :> Letter(customer, "unsupported"))}
    \cup {(a :> Letter(customer, "text") @@ b :> Letter(customer, type)) :
               type \in {"media", "media without id"}}

ToCustomer == [n \in Notices |-> customer]

\* A message comes alone, and comes again behind another one.
Overlapping == {<<a>>, <<b, a>>}

=============================================================================
