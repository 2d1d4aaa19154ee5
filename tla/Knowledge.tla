----------------------------- MODULE Knowledge -----------------------------
(***************************************************************************)
(* The knowledge base (modules/knowledgebase): categories and their articles,*)
(* both soft-deleted, edited by administrators side by side while visitors    *)
(* read.  An edit loads a row, changes it and writes its columns back.       *)
(***************************************************************************)
EXTENDS Naturals, Sequences

CONSTANTS
    Cats,         \* the categories
    Slugs,        \* the slugs articles may have
    Requests,     \* bound: the requests handled at the same time
    MaxArticles,  \* bound: the articles ever created
    MaxViews      \* bound: the views counted per article

VARIABLES
    cats,      \* kb_categories: "shown", "hidden" or "deleted"
    articles,  \* kb_articles
    counted,   \* history: the views counted for each article
    request,   \* the requests being handled
    events     \* history: what happened that weakens a guarantee
vars == <<cats, articles, counted, request, events>>

NoRow == [cat |-> "none", slug |-> "none", published |-> FALSE, deleted |-> FALSE, views |-> 0]
Idle == [at |-> "off", id |-> 0, row |-> NoRow, cat |-> "none", seen |-> {}]
Init ==
    /\ cats = [c \in Cats |-> "shown"]
    /\ articles = << >> /\ counted = << >>
    /\ request = [r \in Requests |-> Idle]
    /\ events = {}

At(r, p) == request[r].at = p
Done(r) == request' = [request EXCEPT ![r] = Idle]
Begin(r, q) == At(r, "off") /\ request' = [request EXCEPT ![r] = q]
\* GetCategoryByID and GetArticleByID: rows that are not deleted.
GetCategory(c) == cats[c] # "deleted"
GetArticle(i) == ~articles[i].deleted
Live(c) == {i \in DOMAIN articles : articles[i].cat = c /\ GetArticle(i)}
\* The unique index on the slugs keeps those of deleted articles too.
SlugFree(s, i) == \A j \in DOMAIN articles : j # i => articles[j].slug # s

-----------------------------------------------------------------------------
(* Articles.                                                               *)

CreateArticle(r, c, s) ==
    /\ GetCategory(c) /\ Len(articles) < MaxArticles
    /\ Begin(r, [Idle EXCEPT !.at = "insert", !.row = [NoRow EXCEPT !.cat = c, !.slug = s]])
    /\ UNCHANGED <<cats, articles, counted, events>>
\* The key on category_id is satisfied by a soft-deleted category.
InsertArticle(r) ==
    /\ At(r, "insert") /\ Done(r)
    /\ IF SlugFree(request[r].row.slug, 0) /\ Len(articles) < MaxArticles
       THEN /\ articles' = Append(articles, request[r].row) /\ counted' = Append(counted, 0)
            /\ events' = IF GetCategory(request[r].row.cat) THEN events ELSE events \cup {"crossed"}
       ELSE UNCHANGED <<articles, counted, events>>
    /\ UNCHANGED cats

\* UpdateArticle: a new category must exist; a slug or the switch may change.
UpdateArticle(r, i, c, s, p) ==
    /\ GetArticle(i) /\ (c = articles[i].cat \/ GetCategory(c))
    /\ Begin(r, [Idle EXCEPT !.at = "update", !.id = i,
                             !.row = [articles[i] EXCEPT !.cat = c, !.slug = s, !.published = p]])
    /\ UNCHANGED <<cats, articles, counted, events>>
\* Mutant: the view counter is among the columns.
WriteAll(i, row) == IF GetArticle(i) THEN row ELSE articles[i]
\* Mutant: WHERE id = $1 alone.
WriteDeleted(i, row) == [row EXCEPT !.views = articles[i].views]
\* The repository's UPDATE ... WHERE deleted_at IS NULL, views not among the columns.
WriteArticle(i, row) ==
    IF GetArticle(i) THEN [row EXCEPT !.views = articles[i].views] ELSE articles[i]
SaveArticle(r) ==
    LET q == request[r]
    IN  /\ At(r, "update") /\ Done(r)
        /\ IF SlugFree(q.row.slug, q.id)
           THEN /\ articles' = [articles EXCEPT ![q.id] = WriteArticle(q.id, q.row)]
                /\ events' = IF GetCategory(q.row.cat) THEN events ELSE events \cup {"crossed"}
           ELSE UNCHANGED <<articles, events>>
        /\ UNCHANGED <<cats, counted>>

SoftDeleteArticle(i) ==
    /\ GetArticle(i) /\ articles' = [articles EXCEPT ![i].deleted = TRUE]
    /\ UNCHANGED <<cats, counted, request, events>>

\* PublicArticleBySlug: what is found is counted, in a second statement.
PublicArticleBySlug(r, i) ==
    /\ GetArticle(i) /\ articles[i].published
    /\ Begin(r, [Idle EXCEPT !.at = "count", !.id = i])
    /\ UNCHANGED <<cats, articles, counted, events>>
IncrementViews(r) ==
    LET i == request[r].id
    IN  /\ At(r, "count") /\ Done(r)
        /\ IF GetArticle(i) /\ counted[i] < MaxViews
           THEN /\ articles' = [articles EXCEPT ![i].views = @ + 1]
                /\ counted' = [counted EXCEPT ![i] = @ + 1]
           ELSE UNCHANGED <<articles, counted>>
        /\ UNCHANGED <<cats, events>>

-----------------------------------------------------------------------------
(* Categories.                                                             *)

\* UpdateCategory, for the hidden switch; deleted rows are not written.
UpdateCategory(c) ==
    /\ GetCategory(c)
    /\ cats' = [cats EXCEPT ![c] = IF @ = "shown" THEN "hidden" ELSE "shown"]
    /\ UNCHANGED <<articles, counted, request, events>>

\* Mutant: only published articles are counted.
CountPublished(c) == {i \in Live(c) : articles[i].published}
CountArticlesInCategory(c) == Live(c)
\* DeleteCategory: a transaction counts, then deletes; nothing is locked between.
DeleteCategory(r, c) ==
    /\ GetCategory(c) /\ CountArticlesInCategory(c) = {}
    /\ Begin(r, [Idle EXCEPT !.at = "delete", !.cat = c, !.seen = Live(c)])
    /\ UNCHANGED <<cats, articles, counted, events>>
SoftDeleteCategory(r) ==
    LET c == request[r].cat
    IN  /\ At(r, "delete") /\ Done(r)
        /\ cats' = [cats EXCEPT ![c] = "deleted"]
        /\ events' = IF Live(c) = request[r].seen THEN events ELSE events \cup {"crossed"}
        /\ UNCHANGED <<articles, counted>>

Step(r) == InsertArticle(r) \/ SaveArticle(r) \/ IncrementViews(r) \/ SoftDeleteCategory(r)
Next ==
    \/ \E r \in Requests :
         \/ Step(r)
         \/ \E c \in Cats : DeleteCategory(r, c) \/ (\E s \in Slugs : CreateArticle(r, c, s))
         \/ \E i \in DOMAIN articles :
              \/ PublicArticleBySlug(r, i)
              \/ \E c \in Cats, s \in Slugs, p \in BOOLEAN : UpdateArticle(r, i, c, s, p)
    \/ \E i \in DOMAIN articles : SoftDeleteArticle(i)
    \/ \E c \in Cats : UpdateCategory(c)
Spec == Init /\ [][Next]_vars

-----------------------------------------------------------------------------
(* Properties.                                                             *)

\* DeleteCategory "Categories that still contain non-deleted articles cannot be
\* deleted": an article's category exists, unless the article was written while
\* the category was being deleted.
ArticleHasCategory ==
    events = {} => \A i \in DOMAIN articles : GetArticle(i) => GetCategory(articles[i].cat)

\* IncrementViews: no view is lost to an edit that loaded the row before it.
ViewsKept == \A i \in DOMAIN articles : articles[i].views = counted[i]

\* SoftDeleteArticle: an edit that loaded the article before does not bring it
\* back.
ArticleGoneStep == \A i \in DOMAIN articles : articles[i].deleted => articles'[i].deleted
ArticleStaysGone == [][ArticleGoneStep]_vars
=============================================================================
