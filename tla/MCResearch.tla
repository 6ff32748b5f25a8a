---- MODULE MCResearch ----
(* A QUICK run in small: the input demands a primary and a contradiction  *)
(* path of its first claim, and plans have three queries of which one is   *)
(* reserve; six URLs on four domains.  The article is a wrapper that       *)
(* redirects to a page the search finds as well, or is itself where one of *)
(* the results leads to, on a web whose record moved.  Two of the results  *)
(* are listed alike.  The record may be verified for the first claim and   *)
(* for the second, the budget ends before the third, and whose record the  *)
(* fourth claim needs is not clear.                                        *)
EXTENDS Research

CONSTANTS wrap, page, news, blog, record, moved

MCUrls == {wrap, page, news, blog, record, moved}
MCDomainOf == [u \in MCUrls |->
  CASE u = wrap -> "wrap.example" [] u \in {page, moved} -> "page.example"
    [] u = news -> "news.example" [] u = blog -> "blog.example"
    [] u = record -> "record.example"]
MCTitleOf == [u \in MCUrls |-> IF u = blog THEN "news" ELSE MCDomainOf[u]]
Web(article, place) ==
  [u \in MCUrls |-> IF u = wrap THEN article ELSE IF u = record THEN place ELSE u]
MCWebs == {Web(page, record), [Web(wrap, moved) EXCEPT ![news] = wrap]}
Query(intent, words) == [path |-> <<1, intent>>, text |-> words]
MCRequired == {<<1, "primary">>, <<1, "contradiction">>}
Good == <<Query("primary", 1), Query("context", 2), Query("contradiction", 3)>>
MCDrafts ==
  {Good,
   <<Query("primary", 1), Query("context", 2)>>,
   <<Query("primary", 1), Query("contradiction", 1)>>,
   Append(Good, Query("context", 4))}
MCHolders == <<3, 1, 2>>
MCRegistered == [p \in 1..3 |-> {record}]
MCAnswers == {{page, news}, {blog, record}}
====
