---------------------------- MODULE MCSummaries ----------------------------
(***************************************************************************)
(* Packages for TLC: three functions, each of one path of up to two acts or *)
(* two paths of up to one.                                                  *)
(***************************************************************************)
EXTENDS Summaries

Does(what) == [do |-> what]
Calls == [do : {"call", "defer"}, callee : Function]
Plain == {Does("pay"), Does("hand"), Does("nothing")} \union Calls

\* One or two paths of one act each, or one path of two.
SmallBodies ==
    {{<<a>>, <<Does("pay")>>} :
       a \in {Does("panic"), Does("hand"), Does("nothing")}
               \union [do : {"call"}, callee : Function]}
      \union {{<<a>>} : a \in Plain}
      \union {{<<[do |-> "call", callee |-> f], Does("pay")>>} : f \in Function}
      \union {{<<Does("deferPay")>>}}

FewBodies == {{<<a>>} : a \in (Plain \ {Does("nothing")}) \union {Does("panic")}}

Package(b, m, e) == [body |-> b, method |-> m, escapes |-> e]

All == {"returned", "stored", "passed"}

PlainPackages == {Package(b, {}, All) : b \in [Function -> SmallBodies]}

MethodPackages ==
    {Package(b, m, e) :
       b \in [Function -> FewBodies], m \in {{1}, {2, 3}, {1, 2, 3}},
       e \in {All, {"stored"}}}

AllPackages == PlainPackages \union MethodPackages
=============================================================================
