\* A CacheingPropertyObject on the store and a PropertyObject that may use a
\* transaction, on the same node.
CONSTANTS
    cpo = cpo
    po = po
    p = p
    q = q
    ns = ns
    Object = {cpo, po}
    Cacheing = {cpo}
    Abbreviated = {po}
    Prefix <- MCPrefix
    Local = {p}
    Namespace = {ns}
    RdfType = rdf
    UriValue = {u}
    Literal = {v}
    Nothing = Nothing
    MaxValues = 2
SPECIFICATION Spec
INVARIANTS TypeOK CacheIsExactUnlessDisturbed
PROPERTIES WritesReplaceTheProperty
